---- MODULE Spec2Model ----
(***************************************************************************)
(* GitHubRepoStats: the PR aggregation pipeline.                           *)
(*                                                                         *)
(*   Spec      the fetch orchestrator fetchMergedPullRequests: the         *)
(*             p-limit gated per-PR tasks, the per-PR cache, the joins     *)
(*             (Promise.all) and generateReport's await.                   *)
(*   SpecList  listMergedPullRequestSummaries: paging through the closed   *)
(*             PRs, the merge-window filter, the limit short-circuit and   *)
(*             the range-listing cache, over repeated calls on one window. *)
(*   SpecFilter  the ignore/extension filter of report.ts (buildPrFiles).  *)
(*   SpecReport  the aggregator of report.ts (generateReport after the     *)
(*             fetch): per-owner and per-file folds, totals, sorting.      *)
(*                                                                         *)
(* One action is one turn of the event loop: the completion of one         *)
(* awaited I/O operation together with all the synchronous code and        *)
(* microtasks (promise reactions, p-limit's dequeue) that run after it.    *)
(***************************************************************************)
EXTENDS Integers, Sequences, FiniteSets, TLC

(***************************************************************************)
(* Bounds of the model.                                                    *)
(***************************************************************************)
MaxPRs == 2
MaxCap == 2
MaxPulls == 2
MaxTime == 2
MaxPage == 2
MaxLimit == 2
DayLen == 2
MaxExts == 2
MaxPatterns == 2
MaxFiles == 2
MaxReportPRs == 3
MaxOrderPRs == 4
MaxPeriodTime == 3
MaxRuns == 2
MaxHalves == 56
MaxGenerations == 3

(***************************************************************************)
(* Program constants.                                                      *)
(***************************************************************************)
DefaultConcurrency == 6
MaxConcurrency == 25

VARIABLES
    \* ---- fetch orchestrator (github.ts) ----
    concurrentRequests, \* options.concurrentRequests, a JavaScript number or undefined
    variant,        \* "simple" (src/src/github.ts) or "files" (file-aware github.ts)
    cap,            \* sanitizeConcurrency(concurrentRequests)
    pc,             \* fetchMergedPullRequests: "listing", "fetching", "resolved", "rejected"
    summaries,      \* the PR numbers of the listed summaries, in listing order
    tasks,          \* tasks[i]: the limiter task of summaries[i]: one op per kind
    cache,          \* the cache directory: path -> entry
    rejectedWith,   \* the error fetchMergedPullRequests rejected with: <<i, kind>> of
                    \* the failed op, <<0, "listing">>, or <<0, "none">>
    report,         \* generateReport: "pending", "returned", "thrown"
    run,            \* which run of the program over this cache directory this is
    previous,       \* path -> the payload the previous run returned for it (Unread
                    \* if it returned none)
    completed       \* the tasks whose promise has fulfilled, in the order they did

orchVars == <<concurrentRequests, variant, cap, pc, summaries, tasks, cache, rejectedWith,
              report, run, previous, completed>>

VARIABLES
    \* ---- listMergedPullRequestSummaries ----
    remotePulls,    \* the closed PRs of the remote source: merged_at of each (0 =
                    \* null) by PR number; listed in this order unless updated
    moved,          \* the PRs updated since, most recent first: `sort: updated,
                    \* direction: desc` lists them ahead of all others
    perPage,        \* how the remote source splits the listing into pages
    since, until,   \* options.since / options.until as timestamps (0 = not supplied)
    limit,          \* options.limit of the current call (0 = not supplied)
    now,            \* the clock when the current call started
    lpc,            \* "idle" | "readCache" | "paging" | "writeCache" | "returned" | "rejected"
    fetched,        \* pulls delivered by the pages received so far
    pageRequests,   \* page requests issued by the current call
    examined,       \* pulls the loop body has looked at in the current call
    collected,      \* the summaries array of the current call
    result,         \* what the current call returned
    rangeRead,      \* the current call has read a range cache entry
    rangeWrite,     \* the current call has written (or tried to write) one
    rangeHit,       \* the current call was served from the range cache
    rangeCache      \* the range directory of the cache: path -> entry

listVars == <<remotePulls, moved, perPage, since, until, limit, now, lpc, fetched, pageRequests,
              examined, collected, result, rangeRead, rangeWrite, rangeHit, rangeCache>>

VARIABLES
    \* ---- report.ts ----
    extensions,           \* options.extensions
    ignoredFilePatterns,  \* options.ignoredFilePatterns
    changedFiles,         \* the `files` argument of buildPrFiles
    prFiles,              \* the result of buildPrFiles
    pulls,                \* what fetchMergedPullRequests resolved with
    rpc,                  \* "input" | "done"
    reportInfo,           \* the ReportInfo generateReport returns
    generatedAt,          \* what `new Date()` gave determinePeriodEnd, 0 if not read
    generated             \* the earlier calls of generateReport in this process: what
                          \* each was given and what it returned

repVars == <<extensions, ignoredFilePatterns, changedFiles, prFiles, pulls, rpc, reportInfo,
             generatedAt, generated>>

vars == <<orchVars, listVars, repVars>>

(***************************************************************************)
(* Helpers.                                                                *)
(***************************************************************************)
Min2(a, b) == IF a <= b THEN a ELSE b
Max2(a, b) == IF a >= b THEN a ELSE b
SetMin(S) == CHOOSE x \in S : \A y \in S : x <= y

RECURSIVE SeqsUpTo(_, _)
SeqsUpTo(S, n) ==
    IF n = 0 THEN {<<>>}
    ELSE LET shorter == SeqsUpTo(S, n - 1)
         IN  shorter \cup {Append(s, x) : s \in {t \in shorter : Len(t) = n - 1}, x \in S}

(***************************************************************************)
(* Cache store.  A path is <<directory, PR number>> under                   *)
(* <cacheDir>/<owner>/<repo>; owner, repo and cacheDir are fixed in a run.  *)
(* An entry is absent, a JSON payload, or a file that makes readCache      *)
(* throw (unparsable JSON, or unreadable for a reason other than ENOENT).  *)
(* gen 0 marks a payload written before the first run, gen r a payload the *)
(* remote source returns in run r.  `dates` is the type the timestamps of  *)
(* a value have: the remote API delivers them as ISO strings.              *)
(***************************************************************************)
PRNumbers == 1..MaxPRs

Absent == [tag |-> "absent", kind |-> "none", number |-> 0, gen |-> 0, dates |-> "none"]
Corrupt == [tag |-> "corrupt", kind |-> "none", number |-> 0, gen |-> 0, dates |-> "none"]
Unread == [tag |-> "unread", kind |-> "none", number |-> 0, gen |-> 0, dates |-> "none"]
Payload(k, n, g) ==
    [tag |-> "payload", kind |-> k, number |-> n, gen |-> g, dates |-> "string"]

Kinds == {"data", "files"}
Ops(v) == IF v = "simple" THEN {"data"} ELSE Kinds

computeCacheFilePath(v, pullNumber) ==
    IF v = "simple" THEN <<"pr-", pullNumber>> ELSE <<"pr", pullNumber>>
computeFilesCacheFilePath(pullNumber) == <<"pr-files", pullNumber>>

CachePath(v, k, pullNumber) ==
    IF k = "data" THEN computeCacheFilePath(v, pullNumber)
    ELSE computeFilesCacheFilePath(pullNumber)

CachePaths(v) == {CachePath(v, k, n) : k \in Ops(v), n \in PRNumbers}

KindOfPath(p) == IF p[1] = "pr-files" THEN "files" ELSE "data"

Summary(pullNumber, merged_at) ==
    [number |-> pullNumber, mergedAt |-> [type |-> "Date", t |-> merged_at]]

\* JSON.parse(JSON.stringify(summaries)): a Date comes back as a string.
JsonRoundTrip(ss) ==
    [i \in DOMAIN ss |-> [ss[i] EXCEPT !.mergedAt = [type |-> "string", t |-> @.t]]]

\* Mutant: a serialisation that loses which response the payload came from.
JSONStringifyLossy(data) == [data EXCEPT !.gen = 0]

\* JSON.stringify(data, null, 2).  The text of a file is represented by the
\* JSON value it denotes: a Date is written as its ISO string, strings and
\* numbers are written as they are.  `data` is a per-PR payload or, with a
\* `value` field, the summaries array of a range entry.
JSONStringify(data) ==
    IF "value" \in DOMAIN data THEN [data EXCEPT !.value = JsonRoundTrip(@)]
    ELSE [data EXCEPT !.dates = IF @ = "Date" THEN "string" ELSE @]

\* JSON.parse of the text of a file that holds JSON.
JSONParse(text) == text

\* Mutant: a catch that takes every read failure for a missing file.
AnyReadError(entry) == entry.tag \in {"absent", "corrupt"}

\* (error as NodeJS.ErrnoException).code === "ENOENT" in the catch of readCache.
ENOENT(entry) == entry.tag = "absent"

\* Mutant: a cache that is written but never consulted.
readCacheAlwaysMiss(entry) == [status |-> "undefined", value |-> Absent]

\* readCache: fs.readFile then JSON.parse; ENOENT gives undefined, anything
\* else that throws is rethrown.
readCache(entry) ==
    IF ENOENT(entry) THEN [status |-> "undefined", value |-> Absent]
    ELSE IF entry.tag = "corrupt" THEN [status |-> "throw", value |-> Corrupt]
    ELSE [status |-> "value", value |-> JSONParse(entry)]

\* Mutant: the fetched payload is returned without being persisted.
writeCacheDropped(c, path, data) == c

\* writeCache: mkdir -p, then writeFile of JSON.stringify(data).
writeCache(c, path, data) == [c EXCEPT ![path] = JSONStringify(data)]

(***************************************************************************)
(* sanitizeConcurrency.  A JavaScript number is undefined, NaN, an         *)
(* infinity (halves gives its sign) or the finite number halves / 2, so    *)
(* that integers and fractions of both signs are among the inputs.         *)
(***************************************************************************)
Undefined == [kind |-> "undefined", halves |-> 0]
NaN == [kind |-> "NaN", halves |-> 0]
PosInfinity == [kind |-> "Infinity", halves |-> 1]
NegInfinity == [kind |-> "Infinity", halves |-> -1]
Number(h) == [kind |-> "number", halves |-> h]

\* !concurrency
Falsy(x) == x.kind \in {"undefined", "NaN"} \/ (x.kind = "number" /\ x.halves = 0)

NumberIsNaN(x) == x.kind = "NaN"

\* Math.trunc: the integer part, towards zero.
MathTrunc(x) ==
    IF x.kind # "number" THEN x
    ELSE IF x.halves >= 0 THEN Number(2 * (x.halves \div 2))
    ELSE Number(-2 * ((-x.halves) \div 2))

\* Math.min and Math.max of an integer and a number that is not NaN.
MathMin(a, x) ==
    IF x.kind = "Infinity" THEN (IF x.halves > 0 THEN Number(2 * a) ELSE x)
    ELSE IF x.halves < 2 * a THEN x ELSE Number(2 * a)

MathMax(a, x) ==
    IF x.kind = "Infinity" THEN (IF x.halves > 0 THEN x ELSE Number(2 * a))
    ELSE IF x.halves > 2 * a THEN x ELSE Number(2 * a)

\* Mutant: the result is capped at 25 but has no floor of 1.
sanitizeConcurrencyNoFloor(concurrency) ==
    IF Falsy(concurrency) \/ NumberIsNaN(concurrency) THEN DefaultConcurrency
    ELSE LET r == MathMin(MaxConcurrency, MathTrunc(concurrency))
         IN  IF r.kind = "number" THEN r.halves \div 2 ELSE -MaxConcurrency

sanitizeConcurrency(concurrency) ==
    IF Falsy(concurrency) \/ NumberIsNaN(concurrency) THEN DefaultConcurrency
    ELSE MathMax(1, MathMin(MaxConcurrency, MathTrunc(concurrency))).halves \div 2

(***************************************************************************)
(* Limiter tasks.  An op is getPullRequestWithCache ("data") or            *)
(* getPullRequestFilesWithCache ("files") of one task:                     *)
(*   pc   "queued" | "read" | "net" | "write" | "done"                     *)
(*        | "readErr" | "netErr" | "writeErr" | "none" (no such op)        *)
(*   saw  the entry on disk when readCache ran, res  the payload held or   *)
(*        returned,                                                        *)
(*   net  the number of network fetches the op has issued.                 *)
(***************************************************************************)
OpQueued == [pc |-> "queued", saw |-> Unread, res |-> Unread, net |-> 0]
OpNone == [pc |-> "none", saw |-> Unread, res |-> Unread, net |-> 0]
OpReading == [pc |-> "read", saw |-> Unread, res |-> Unread, net |-> 0]

TaskQueued(v) == [k \in Kinds |-> IF k \in Ops(v) THEN OpQueued ELSE OpNone]
\* The task body runs to its first awaits: both ops have called readCache.
TaskStarted(v) == [k \in Kinds |-> IF k \in Ops(v) THEN OpReading ELSE OpNone]

OpFailed(o) == o.pc \in {"readErr", "netErr", "writeErr"}
Started(t) == t["data"].pc # "queued"
\* Promise.all([data, files]) of the task body: rejected by the first op that
\* fails, resolved when every op has returned.
TaskRejected(t) == \E k \in Kinds : OpFailed(t[k])
TaskResolved(t) == \A k \in Kinds : t[k].pc \in {"done", "none"}
TaskActive(t) == Started(t) /\ ~TaskRejected(t) /\ ~TaskResolved(t)

ActiveCount(ts) == Cardinality({i \in DOMAIN ts : TaskActive(ts[i])})
QueuedSet(ts) == {i \in DOMAIN ts : ~Started(ts[i])}

\* Mutant: the task bodies are mapped without the limiter, so all start at once.
DispatchUnlimited(ts, v, c) ==
    [i \in DOMAIN ts |-> IF Started(ts[i]) THEN ts[i] ELSE TaskStarted(v)]

\* p-limit: a task is started while fewer than `c` are active, in queue order.
RECURSIVE Dispatch(_, _, _)
Dispatch(ts, v, c) ==
    IF QueuedSet(ts) = {} \/ ActiveCount(ts) >= c THEN ts
    ELSE Dispatch([ts EXCEPT ![SetMin(QueuedSet(ts))] = TaskStarted(v)], v, c)

\* Mutant: once a task has rejected the limiter starts no further task.
LimiterNextUnlessRejected(ts) ==
    IF \E i \in DOMAIN ts : TaskRejected(ts[i]) THEN ts ELSE Dispatch(ts, variant, cap)

\* p-limit's next(), run when a task settles, fulfilled or rejected.
LimiterNext(ts) == Dispatch(ts, variant, cap)

\* Mutant: a join that skips the PRs whose fetch failed (allSettled + filter).
JoinPcSkipFailed(ts) ==
    IF \A i \in DOMAIN ts : TaskResolved(ts[i]) \/ TaskRejected(ts[i]) THEN "resolved"
    ELSE "fetching"

\* The outer Promise.all over the limiter promises.
JoinPc(ts) ==
    IF \E i \in DOMAIN ts : TaskRejected(ts[i]) THEN "rejected"
    ELSE IF \A i \in DOMAIN ts : TaskResolved(ts[i]) THEN "resolved"
    ELSE "fetching"

\* generateReport awaits fetchMergedPullRequests and then builds the report.
ReportOf(p) ==
    IF p = "resolved" THEN "returned"
    ELSE IF p = "rejected" THEN "thrown"
    ELSE "pending"

(***************************************************************************)
(* Orchestrator: initial states and actions.                               *)
(***************************************************************************)
Listings == SeqsUpTo(PRNumbers, MaxPRs)

OldEntries(p) == {Absent, Corrupt, Payload(KindOfPath(p), p[2], 0)}

OrchInit ==
    /\ variant \in {"simple", "files"}
    /\ concurrentRequests \in {Number(2 * n) : n \in 1..MaxCap}
    /\ cap = sanitizeConcurrency(concurrentRequests)
    /\ pc = "listing"
    /\ summaries = <<>>
    /\ tasks = <<>>
    /\ cache \in {c \in [CachePaths(variant) -> {Absent, Corrupt} \cup
                           {Payload(k, n, 0) : k \in Kinds, n \in PRNumbers}] :
                    \A p \in CachePaths(variant) : c[p] \in OldEntries(p)}
    /\ rejectedWith = <<0, "none">>
    /\ report = "pending"
    /\ run = 1
    /\ previous = [p \in CachePaths(variant) |-> Unread]
    /\ completed = <<>>

\* Mutant: a limiter that does not hand a freed slot to a waiting task.
SettleWithoutDispatch(ts, i, k) ==
    LET newPc == IF pc = "fetching" THEN JoinPc(ts) ELSE pc
    IN  /\ tasks' = ts
        /\ completed' = IF TaskResolved(ts[i]) /\ ~TaskResolved(tasks[i])
                            THEN Append(completed, i) ELSE completed
        /\ pc' = newPc
        /\ rejectedWith' = IF pc = "fetching" /\ newPc = "rejected" THEN <<i, k>>
                           ELSE rejectedWith
        /\ report' = ReportOf(newPc)

\* Effects on the join of a turn that left the tasks as `ts`, where op <<i, k>>
\* is the one that completed.
Settle(ts, i, k) ==
    LET dispatched == LimiterNext(ts)
        newPc == IF pc = "fetching" THEN JoinPc(ts) ELSE pc
    IN  /\ tasks' = dispatched
        /\ completed' = IF TaskResolved(ts[i]) /\ ~TaskResolved(tasks[i])
                            THEN Append(completed, i) ELSE completed
        /\ pc' = newPc
        /\ rejectedWith' = IF pc = "fetching" /\ newPc = "rejected" THEN <<i, k>>
                           ELSE rejectedWith
        /\ report' = ReportOf(newPc)

\* listMergedPullRequestSummaries resolves: every summary is handed to the limiter.
ListingDone ==
    /\ pc = "listing"
    /\ \E s \in Listings :
        /\ summaries' = s
        /\ tasks' = Dispatch([i \in 1..Len(s) |-> TaskQueued(variant)], variant, cap)
        /\ pc' = IF Len(s) = 0 THEN "resolved" ELSE "fetching"
        /\ report' = ReportOf(IF Len(s) = 0 THEN "resolved" ELSE "fetching")
    /\ UNCHANGED <<concurrentRequests, variant, cap, cache, rejectedWith, run, previous,
                   completed>>

\* The listing call throws (transport or API error).
ListingFail ==
    /\ pc = "listing"
    /\ pc' = "rejected"
    /\ rejectedWith' = <<0, "listing">>
    /\ report' = ReportOf("rejected")
    /\ UNCHANGED <<concurrentRequests, variant, cap, summaries, tasks, cache, run, previous,
                   completed>>

\* readCache of op <<i, k>> completes; on a miss the network request is issued.
ReadDone(i, k) ==
    /\ tasks[i][k].pc = "read"
    /\ LET entry == cache[CachePath(variant, k, summaries[i])]
           r == readCache(entry)
           o == IF r.status = "throw"
                   THEN [pc |-> "readErr", saw |-> entry, res |-> Unread, net |-> 0]
                ELSE IF r.status = "value"
                   THEN [pc |-> "done", saw |-> entry, res |-> r.value, net |-> 0]
                ELSE [pc |-> "net", saw |-> entry, res |-> Unread, net |-> 1]
       IN  Settle([tasks EXCEPT ![i][k] = o], i, k)
    /\ UNCHANGED <<concurrentRequests, variant, cap, summaries, cache, run, previous>>

\* octokit.pulls.get / octokit.paginate(listFiles) of op <<i, k>> completes.
NetDone(i, k) ==
    /\ tasks[i][k].pc = "net"
    /\ \E ok \in BOOLEAN :
        LET o == IF ok
                    THEN [tasks[i][k] EXCEPT !.pc = "write",
                                             !.res = Payload(k, summaries[i], run)]
                 ELSE [tasks[i][k] EXCEPT !.pc = "netErr"]
        IN  Settle([tasks EXCEPT ![i][k] = o], i, k)
    /\ UNCHANGED <<concurrentRequests, variant, cap, summaries, cache, run, previous>>

\* writeCache of op <<i, k>> completes; the op then returns the fetched payload.
WriteDone(i, k) ==
    /\ tasks[i][k].pc = "write"
    /\ \E ok \in BOOLEAN :
        /\ cache' = IF ok
                       THEN writeCache(cache, CachePath(variant, k, summaries[i]),
                                       tasks[i][k].res)
                    ELSE cache
        /\ Settle([tasks EXCEPT ![i][k].pc = IF ok THEN "done" ELSE "writeErr",
                                ![i][k].res = IF ok THEN @ ELSE Unread], i, k)
    /\ UNCHANGED <<concurrentRequests, variant, cap, summaries, run, previous>>

\* return { summary, data, files } of the task body of summaries[i] (the simple
\* variant has no files).
TaskRecord(i) ==
    [summary |-> summaries[i], data |-> tasks[i]["data"].res, files |-> tasks[i]["files"].res]

\* Mutant: the records gathered in the order the tasks complete.
detailedPullsByCompletion == [j \in DOMAIN completed |-> TaskRecord(completed[j])]

\* const detailedPulls = await Promise.all(summaries.map(...)): the value of
\* the i-th promise at position i.
detailedPulls == [i \in DOMAIN tasks |-> TaskRecord(i)]

\* Every op of the run has settled, so the process has nothing left to wait for.
RunOver ==
    /\ pc \in {"resolved", "rejected"}
    /\ \A i \in DOMAIN tasks : \A k \in Ops(variant) :
            tasks[i][k].pc \in {"done", "readErr", "netErr", "writeErr"}

\* The payloads the ops of this run returned for `path`.
ReturnedFor(path) ==
    {tasks[x[1]][x[2]].res :
        x \in {y \in (DOMAIN tasks) \X Ops(variant) :
                  /\ CachePath(variant, y[2], summaries[y[1]]) = path
                  /\ tasks[y[1]][y[2]].pc = "done"}}

\* The process ends and the program is run again on the same repository with
\* the same cache directory, with whatever options.
RunAgain ==
    /\ RunOver
    /\ run < MaxRuns
    /\ run' = run + 1
    /\ previous' = [p \in CachePaths(variant) |->
                       IF ReturnedFor(p) = {} THEN Unread
                       ELSE CHOOSE r \in ReturnedFor(p) : TRUE]
    /\ concurrentRequests' \in {Number(2 * n) : n \in 1..MaxCap}
    /\ cap' = sanitizeConcurrency(concurrentRequests')
    /\ pc' = "listing"
    /\ summaries' = <<>>
    /\ tasks' = <<>>
    /\ completed' = <<>>
    /\ rejectedWith' = <<0, "none">>
    /\ report' = "pending"
    /\ UNCHANGED <<variant, cache>>

\* const limiter = pLimit(sanitizeConcurrency(concurrentRequests))
SanitizeConcurrency ==
    /\ pc = "sanitize"
    /\ cap' = sanitizeConcurrency(concurrentRequests)
    /\ pc' = "sanitized"
    /\ UNCHANGED <<concurrentRequests, variant, summaries, tasks, cache, rejectedWith, report,
                   run, previous, completed>>

ConcurrencyInputs ==
    {Undefined, NaN, PosInfinity, NegInfinity} \cup {Number(h) : h \in -MaxHalves..MaxHalves}

SanitizeInit ==
    /\ concurrentRequests \in ConcurrencyInputs
    /\ variant \in {"simple", "files"}
    /\ cap = 0 /\ pc = "sanitize" /\ summaries = <<>> /\ tasks = <<>> /\ cache = <<>>
    /\ rejectedWith = <<0, "none">> /\ report = "pending" /\ run = 0 /\ previous = <<>>
    /\ completed = <<>>

(***************************************************************************)
(* listMergedPullRequestSummaries.                                         *)
(*                                                                         *)
(* Timestamps are ticks, DayLen ticks to a calendar day.  A summary keeps  *)
(* the PR number and mergedAt; mergedAt is a Date in a fresh listing and   *)
(* the ISO string JSON.stringify made of it after a trip through the range *)
(* cache.                                                                  *)
(***************************************************************************)
Times == 1..MaxTime
Nows == {MaxTime, MaxTime + DayLen + 1}
RemoteListings == SeqsUpTo(0..MaxTime, MaxPulls)

\* const targetAmount = typeof limit === "number" && limit > 0 ? limit : undefined
TargetAmount(l) == IF l > 0 THEN l ELSE 0

\* Mutant: `until` compared with the clock itself, not with the end of yesterday.
isUntilEligibleUpToNow(u, clock) == u <= clock

\* isUntilEligibleForCache: until <= yesterday 23:59:59.999 of the local clock.
isUntilEligibleForCache(u, clock) == u <= (clock \div DayLen) * DayLen - 1

computeRangeCacheFilePath(s, u) == <<"range", s, u>>

RangePaths == {computeRangeCacheFilePath(s, u) : s \in Times, u \in Times}
RangeAbsent == [tag |-> "absent", value |-> <<>>]
RangeCorrupt == [tag |-> "corrupt", value |-> <<>>]
RangePayload(ss) == [tag |-> "payload", value |-> ss]

\* Mutant: the lower bound of the merge window taken as exclusive.
SkipsPullExclusive(merged_at, s, u) ==
    \/ merged_at = 0
    \/ (s # 0 /\ merged_at <= s)
    \/ (u # 0 /\ merged_at > u)

\* The three `continue`s of the loop body.
SkipsPull(merged_at, s, u) ==
    \/ merged_at = 0
    \/ (s # 0 /\ merged_at < s)
    \/ (u # 0 /\ merged_at > u)

\* if (targetAmount && summaries.length >= targetAmount) break outer
ReachedTarget(target, n) == target # 0 /\ n >= target

\* The inner loop over one page `data` of pulls: runs synchronously to the
\* end of the page or to `break outer`.
RECURSIVE ProcessPage(_, _, _, _, _, _)
ProcessPage(data, acc, seen, s, u, target) ==
    IF data = <<>> THEN [summaries |-> acc, examined |-> seen, broke |-> FALSE]
    ELSE IF SkipsPull(Head(data).merged_at, s, u)
        THEN ProcessPage(Tail(data), acc, seen + 1, s, u, target)
    ELSE LET pushed == Append(acc, Summary(Head(data).number, Head(data).merged_at))
         IN  IF ReachedTarget(target, Len(pushed))
                THEN [summaries |-> pushed, examined |-> seen + 1, broke |-> TRUE]
             ELSE ProcessPage(Tail(data), pushed, seen + 1, s, u, target)

\* The listing of closed pulls as the remote source orders it now.
RemoteOrder ==
    moved \o SelectSeq([n \in 1..Len(remotePulls) |-> n],
                       LAMBDA n : \A i \in DOMAIN moved : moved[i] # n)

\* One element of a page of octokit.pulls.list.
RemotePull(n) == [number |-> n, merged_at |-> remotePulls[n]]

PageAt(listing, from, size) == SubSeq(listing, from + 1, Min2(from + size, Len(listing)))

\* No listing is under way; since and until are the options of the run.
ListQuiet ==
    /\ remotePulls = <<>> /\ moved = <<>> /\ perPage = 1 /\ limit = 0
    /\ now = 0 /\ lpc = "idle" /\ fetched = 0 /\ pageRequests = 0 /\ examined = 0
    /\ collected = <<>> /\ result = <<>> /\ rangeRead = FALSE /\ rangeWrite = FALSE
    /\ rangeHit = FALSE /\ rangeCache = <<>>

ListIdle == ListQuiet /\ since = 0 /\ until = 0

ListInit ==
    /\ remotePulls \in RemoteListings
    /\ moved = <<>>
    /\ perPage \in 1..MaxPage
    /\ since \in 0..MaxTime
    /\ until \in 0..MaxTime
    /\ limit = 0
    /\ now = 0
    /\ lpc = "idle"
    /\ fetched = 0 /\ pageRequests = 0 /\ examined = 0
    /\ collected = <<>> /\ result = <<>>
    /\ rangeRead = FALSE /\ rangeWrite = FALSE /\ rangeHit = FALSE
    /\ rangeCache \in {c \in [RangePaths -> {RangeAbsent, RangeCorrupt}] :
                         \A p \in RangePaths :
                            p # computeRangeCacheFilePath(since, until) => c[p] = RangeAbsent}

\* A call starts and runs to its first await: readCache on the cache path,
\* the first page request otherwise.
ListBegin ==
    /\ lpc \in {"idle", "returned", "rejected"}
    /\ \E l \in 0..MaxLimit, clock \in {c \in Nows : c >= now} :
        /\ limit' = l
        /\ now' = clock
        /\ IF since # 0 /\ until # 0 /\ isUntilEligibleForCache(until, clock)
              THEN lpc' = "readCache" /\ rangeRead' = TRUE /\ pageRequests' = 0
              ELSE lpc' = "paging" /\ rangeRead' = FALSE /\ pageRequests' = 1
    /\ fetched' = 0 /\ examined' = 0 /\ collected' = <<>> /\ result' = <<>>
    /\ rangeWrite' = FALSE /\ rangeHit' = FALSE
    /\ UNCHANGED <<remotePulls, moved, perPage, since, until, rangeCache>>

\* readCache(cachePath) completes: a hit returns the cached list cut to the
\* limit, a miss starts the fresh listing, anything else is rethrown.
ListCacheRead ==
    /\ lpc = "readCache"
    /\ LET r == readCache(rangeCache[computeRangeCacheFilePath(since, until)])
       IN  IF r.status = "throw"
              THEN lpc' = "rejected" /\ UNCHANGED <<result, rangeHit, pageRequests>>
           ELSE IF r.status = "value"
              THEN /\ lpc' = "returned"
                   /\ rangeHit' = TRUE
                   /\ result' = IF TargetAmount(limit) # 0
                                   THEN SubSeq(r.value.value, 1,
                                               Min2(TargetAmount(limit), Len(r.value.value)))
                                ELSE r.value.value
                   /\ UNCHANGED pageRequests
           ELSE lpc' = "paging" /\ pageRequests' = 1 /\ UNCHANGED <<result, rangeHit>>
    /\ UNCHANGED <<remotePulls, moved, perPage, since, until, limit, now, fetched, examined,
                   collected, rangeRead, rangeWrite, rangeCache>>

\* A page arrives and its pulls are examined; then the next page is requested,
\* or the loop is over: writeCache on the cache path, return otherwise.
ListPage ==
    /\ lpc = "paging"
    /\ LET page == PageAt(RemoteOrder, fetched, perPage)
           data == [i \in DOMAIN page |-> RemotePull(page[i])]
           r == ProcessPage(data, collected, examined, since, until, TargetAmount(limit))
           more == ~r.broke /\ fetched + perPage < Len(RemoteOrder)
       IN  /\ fetched' = fetched + Len(data)
           /\ collected' = r.summaries
           /\ examined' = r.examined
           /\ IF more
                 THEN lpc' = "paging" /\ pageRequests' = pageRequests + 1
                      /\ UNCHANGED <<result, rangeWrite>>
              ELSE IF rangeRead
                 THEN lpc' = "writeCache" /\ rangeWrite' = TRUE
                      /\ UNCHANGED <<result, pageRequests>>
              ELSE lpc' = "returned" /\ result' = r.summaries
                   /\ UNCHANGED <<rangeWrite, pageRequests>>
    /\ UNCHANGED <<remotePulls, moved, perPage, since, until, limit, now, rangeRead, rangeHit,
                   rangeCache>>

\* A page request fails: the listing rejects.
ListPageFail ==
    /\ lpc = "paging"
    /\ lpc' = "rejected"
    /\ UNCHANGED <<remotePulls, moved, perPage, since, until, limit, now, fetched, pageRequests,
                   examined, collected, result, rangeRead, rangeWrite, rangeHit, rangeCache>>

\* Mutant: the write of the range entry awaited without a try/catch.
AfterRangeWriteRethrown(ok) == IF ok THEN "returned" ELSE "rejected"

\* try { await writeCache(cachePath, summaries) } catch (err) { } return summaries
AfterRangeWrite(ok) == "returned"

\* writeCache(cachePath, summaries) completes; a failure is ignored.
ListCacheWrite ==
    /\ lpc = "writeCache"
    /\ \E ok \in BOOLEAN :
        /\ rangeCache' = IF ok
                            THEN writeCache(rangeCache,
                                            computeRangeCacheFilePath(since, until),
                                            RangePayload(collected))
                         ELSE rangeCache
        /\ lpc' = AfterRangeWrite(ok)
        /\ result' = IF AfterRangeWrite(ok) = "returned" THEN collected ELSE result
    /\ UNCHANGED <<remotePulls, moved, perPage, since, until, limit, now, fetched, pageRequests,
                   examined, collected, rangeRead, rangeWrite, rangeHit>>

\* Between two page requests a closed pull is updated (a comment, a label):
\* the remote source now lists it first.
RemoteUpdate ==
    /\ lpc = "paging"
    /\ \E n \in 1..Len(remotePulls) :
        /\ moved' = <<n>> \o SelectSeq(moved, LAMBDA m : m # n)
        /\ moved' # moved
    /\ UNCHANGED <<remotePulls, perPage, since, until, limit, now, lpc, fetched, pageRequests,
                   examined, collected, result, rangeRead, rangeWrite, rangeHit, rangeCache>>

(***************************************************************************)
(* report.ts (file-aware variant): strings.  A string is a sequence of     *)
(* one-character strings, so that case folding, extension extraction and   *)
(* glob matching are computed and not assumed.                             *)
(***************************************************************************)
toLowerCaseChar(c) ==
    CASE c = "A" -> "a" [] c = "B" -> "b" [] c = "D" -> "d" [] c = "L" -> "l"
      [] c = "M" -> "m" [] c = "O" -> "o" [] c = "S" -> "s" [] c = "T" -> "t"
      [] OTHER -> c

toLowerCase(s) == [i \in DOMAIN s |-> toLowerCaseChar(s[i])]

RECURSIVE trimStart(_)
trimStart(s) == IF s # <<>> /\ Head(s) = " " THEN trimStart(Tail(s)) ELSE s

RECURSIVE trimEnd(_)
trimEnd(s) == IF s # <<>> /\ s[Len(s)] = " " THEN trimEnd(SubSeq(s, 1, Len(s) - 1)) ELSE s

trim(s) == trimEnd(trimStart(s))

\* Index of the last occurrence of character c in s, 0 when there is none.
LastIndexOf(s, c) ==
    LET hits == {i \in DOMAIN s : s[i] = c}
    IN  IF hits = {} THEN 0 ELSE CHOOSE i \in hits : \A j \in hits : j <= i

\* path.extname (POSIX) on a path with no trailing "/": the part of the last
\* path segment from its last "." on; empty when the segment has no ".",
\* when its only "." is its first character, or when the segment is "..".
extname(filePath) ==
    LET startPart == LastIndexOf(filePath, "/") + 1
        base == SubSeq(filePath, startPart, Len(filePath))
        startDot == LastIndexOf(base, ".")
    IN  IF \/ startDot = 0
           \/ startDot = 1
           \/ base = <<".", ".">>
        THEN <<>>
        ELSE SubSeq(base, startDot, Len(base))

\* minimatch(filePath, pattern, { dot: true }) for patterns made of literal
\* characters and "*": "*" matches any run of characters other than "/",
\* a leading "." included.
RECURSIVE minimatch(_, _)
minimatch(filePath, pattern) ==
    IF pattern = <<>> THEN filePath = <<>>
    ELSE IF Head(pattern) = "*"
         THEN \/ minimatch(filePath, Tail(pattern))
              \/ /\ filePath # <<>>
                 /\ Head(filePath) # "/"
                 /\ minimatch(Tail(filePath), pattern)
         ELSE /\ filePath # <<>>
              /\ Head(filePath) = Head(pattern)
              /\ minimatch(Tail(filePath), Tail(pattern))

\* String.prototype.localeCompare under the root collation: strings compare
\* by their letters regardless of case first (punctuation before letters),
\* and only when those agree does lower case come before upper case.
CollationOrder == <<" ", ".", "*", "/", "a", "b", "d", "l", "m", "o", "s", "t">>

PrimaryWeight(c) == CHOOSE i \in DOMAIN CollationOrder : CollationOrder[i] = toLowerCaseChar(c)

CaseWeight(c) == IF c = toLowerCaseChar(c) THEN 0 ELSE 1

RECURSIVE CompareSeq(_, _)
CompareSeq(a, b) ==
    IF a = <<>> /\ b = <<>> THEN 0
    ELSE IF a = <<>> THEN -1
    ELSE IF b = <<>> THEN 1
    ELSE IF Head(a) # Head(b) THEN Head(a) - Head(b)
    ELSE CompareSeq(Tail(a), Tail(b))

localeCompare(a, b) ==
    LET primary == CompareSeq([i \in DOMAIN a |-> PrimaryWeight(a[i])],
                              [i \in DOMAIN b |-> PrimaryWeight(b[i])])
    IN  IF primary # 0 THEN primary
        ELSE CompareSeq([i \in DOMAIN a |-> CaseWeight(a[i])],
                        [i \in DOMAIN b |-> CaseWeight(b[i])])

(***************************************************************************)
(* report.ts: the ignore/extension filter.                                 *)
(***************************************************************************)
\* buildIgnoreMatcher(patterns)(filePath)
buildIgnoreMatcher(patterns, filePath) ==
    LET sanitized == SelectSeq(patterns, LAMBDA pattern : Len(trim(pattern)) > 0)
    IN  IF Len(sanitized) = 0 THEN FALSE
        ELSE \E i \in DOMAIN sanitized : minimatch(filePath, sanitized[i])

\* Mutant: the file's extension is compared without lower-casing it.
isAllowedExtensionCaseSensitive(exts, filePath) ==
    LET set == {toLowerCase(exts[i]) : i \in DOMAIN exts}
    IN  IF Cardinality(set) = 0 THEN TRUE ELSE extname(filePath) \in set

isAllowedExtension(exts, filePath) ==
    LET set == {toLowerCase(exts[i]) : i \in DOMAIN exts}
    IN  IF Cardinality(set) = 0 THEN TRUE
        ELSE toLowerCase(extname(filePath)) \in set

\* An optional number: NoNumber is `undefined`.
NoNumber == [has |-> FALSE, v |-> 0]
SomeNumber(n) == [has |-> TRUE, v |-> n]

\* Mutant: an explicit changes count is not honoured.
resolveTotalChangesSummed(changes, linesAdded, linesDeleted) == linesAdded + linesDeleted

resolveTotalChanges(changes, linesAdded, linesDeleted) ==
    IF changes.has THEN changes.v ELSE linesAdded + linesDeleted

PRFileChangeInfo(file) ==
    [path |-> file.filename,
     linesAdded |-> file.additions,
     linesDeleted |-> file.deletions,
     totalChanges |-> resolveTotalChanges(file.changes, file.additions, file.deletions)]

\* Mutant: no file is filtered out.
RECURSIVE buildPrFilesUnfiltered(_, _, _)
buildPrFilesUnfiltered(exts, patterns, files) ==
    IF files = <<>> THEN <<>>
    ELSE <<PRFileChangeInfo(Head(files))>> \o buildPrFilesUnfiltered(exts, patterns, Tail(files))

RECURSIVE buildPrFiles(_, _, _)
buildPrFiles(exts, patterns, files) ==
    IF files = <<>> THEN <<>>
    ELSE LET file == Head(files)
             rest == buildPrFiles(exts, patterns, Tail(files))
         IN  IF buildIgnoreMatcher(patterns, file.filename) THEN rest
             ELSE IF ~isAllowedExtension(exts, file.filename) THEN rest
             ELSE <<PRFileChangeInfo(file)>> \o rest

RECURSIVE sumFiles(_, _)
sumFiles(files, selector) ==
    IF files = <<>> THEN 0 ELSE Head(files)[selector] + sumFiles(Tail(files), selector)

(***************************************************************************)
(* report.ts: aggregation.                                                 *)
(***************************************************************************)
RECURSIVE GCD(_, _)
GCD(a, b) == IF b = 0 THEN a ELSE GCD(b, a % b)

\* Mutant: no test of the denominator; 0 / 0 is NaN, written <<0, 0>>.
safeDivideUnguarded(numerator, denominator) ==
    LET g == GCD(numerator, denominator)
    IN  IF g = 0 THEN <<0, 0>> ELSE <<numerator \div g, denominator \div g>>

\* safeDivide: the quotient as a reduced fraction <<numerator, denominator>>.
\* Two quotients of small integers are the same double exactly when they are
\* the same fraction.
safeDivide(numerator, denominator) ==
    IF denominator = 0 THEN <<0, 1>>
    ELSE LET g == GCD(numerator, denominator)
         IN  <<numerator \div g, denominator \div g>>

computeAveragesFromTotals(totals) ==
    [linesAdded |-> safeDivide(totals.linesAdded, totals.prCount),
     linesDeleted |-> safeDivide(totals.linesDeleted, totals.prCount),
     filesChanged |-> safeDivide(totals.filesChanged, totals.prCount),
     commitsCount |-> safeDivide(totals.commitsCount, totals.prCount)]

\* Mutant: a tie on total changes is broken by ascending PR count.
compareUsersFewerPrsFirst(a, b) ==
    LET totalChangesA == a.totals.linesAdded + a.totals.linesDeleted
        totalChangesB == b.totals.linesAdded + b.totals.linesDeleted
    IN  IF totalChangesB # totalChangesA THEN totalChangesB - totalChangesA
        ELSE IF b.totals.prCount # a.totals.prCount THEN a.totals.prCount - b.totals.prCount
        ELSE localeCompare(a.owner, b.owner)

compareUsers(a, b) ==
    LET totalChangesA == a.totals.linesAdded + a.totals.linesDeleted
        totalChangesB == b.totals.linesAdded + b.totals.linesDeleted
    IN  IF totalChangesB # totalChangesA THEN totalChangesB - totalChangesA
        ELSE IF b.totals.prCount # a.totals.prCount THEN b.totals.prCount - a.totals.prCount
        ELSE localeCompare(a.owner, b.owner)

\* The loop of buildUserReports: userMap is the Map's values in insertion
\* order.
RECURSIVE foldUsers(_, _, _, _)
foldUsers(exts, patterns, prs, userMap) ==
    IF prs = <<>> THEN userMap
    ELSE LET pull == Head(prs)
             counted == buildPrFiles(exts, patterns, pull.files)
             prTotals == [linesAdded |-> sumFiles(counted, "linesAdded"),
                          linesDeleted |-> sumFiles(counted, "linesDeleted"),
                          filesChanged |-> Len(counted),
                          commitsCount |-> pull.data.commits]
             prInfo == [prNumber |-> pull.summary.number,
                        owner |-> pull.summary.owner,
                        totals |-> prTotals,
                        files |-> counted]
             found == {i \in DOMAIN userMap : userMap[i].owner = pull.summary.owner}
             first == [linesAdded |-> prTotals.linesAdded,
                       linesDeleted |-> prTotals.linesDeleted,
                       filesChanged |-> prTotals.filesChanged,
                       commitsCount |-> prTotals.commitsCount,
                       prCount |-> 1]
         IN  IF found = {}
             THEN foldUsers(exts, patterns, Tail(prs),
                      Append(userMap, [owner |-> pull.summary.owner,
                                       totals |-> first,
                                       averages |-> computeAveragesFromTotals(first),
                                       prs |-> <<prInfo>>]))
             ELSE LET i == CHOOSE i \in found : TRUE
                      existing == userMap[i]
                      summed == [linesAdded |-> existing.totals.linesAdded + prTotals.linesAdded,
                                 linesDeleted |-> existing.totals.linesDeleted + prTotals.linesDeleted,
                                 filesChanged |-> existing.totals.filesChanged + prTotals.filesChanged,
                                 commitsCount |-> existing.totals.commitsCount + prTotals.commitsCount,
                                 prCount |-> existing.totals.prCount + 1]
                  IN  foldUsers(exts, patterns, Tail(prs),
                          [userMap EXCEPT ![i] = [owner |-> existing.owner,
                                                  totals |-> summed,
                                                  averages |-> computeAveragesFromTotals(summed),
                                                  prs |-> Append(existing.prs, prInfo)]])

\* Array.prototype.sort (stable) under compareUsers.
sortUsers(seq) ==
    LET position(i) ==
            1 + Cardinality({j \in DOMAIN seq :
                    \/ compareUsers(seq[j], seq[i]) < 0
                    \/ compareUsers(seq[j], seq[i]) = 0 /\ j < i})
    IN  [k \in DOMAIN seq |-> seq[CHOOSE i \in DOMAIN seq : position(i) = k]]

\* Mutant: a map kept at module level, still holding the owners of the last report.
SharedUserMap == reportInfo.users

\* const userMap = new Map<string, ReportUserInfo>()
NewUserMap == <<>>

\* Mutant: the loop skips the first fetched record.
buildUserReportsSkippingFirst(exts, patterns, prs) ==
    sortUsers(foldUsers(exts, patterns, IF prs = <<>> THEN prs ELSE Tail(prs), NewUserMap))

buildUserReports(exts, patterns, prs) ==
    sortUsers(foldUsers(exts, patterns, prs, NewUserMap))

\* The simple variant: the loop of buildUserReports takes the totals of a PR
\* from its detail record.
RECURSIVE foldUsersSimple(_, _)
foldUsersSimple(prs, userMap) ==
    IF prs = <<>> THEN userMap
    ELSE LET pull == Head(prs)
             prTotals == [linesAdded |-> pull.data.additions,
                          linesDeleted |-> pull.data.deletions,
                          filesChanged |-> pull.data.changed_files,
                          commitsCount |-> pull.data.commits]
             prInfo == [prNumber |-> pull.summary.number,
                        owner |-> pull.summary.owner,
                        totals |-> prTotals]
             found == {i \in DOMAIN userMap : userMap[i].owner = pull.summary.owner}
             first == [linesAdded |-> prTotals.linesAdded,
                       linesDeleted |-> prTotals.linesDeleted,
                       filesChanged |-> prTotals.filesChanged,
                       commitsCount |-> prTotals.commitsCount,
                       prCount |-> 1]
         IN  IF found = {}
             THEN foldUsersSimple(Tail(prs),
                      Append(userMap, [owner |-> pull.summary.owner,
                                       totals |-> first,
                                       averages |-> computeAveragesFromTotals(first),
                                       prs |-> <<prInfo>>]))
             ELSE LET i == CHOOSE i \in found : TRUE
                      existing == userMap[i]
                      summed == [linesAdded |-> existing.totals.linesAdded + prTotals.linesAdded,
                                 linesDeleted |-> existing.totals.linesDeleted + prTotals.linesDeleted,
                                 filesChanged |-> existing.totals.filesChanged + prTotals.filesChanged,
                                 commitsCount |-> existing.totals.commitsCount + prTotals.commitsCount,
                                 prCount |-> existing.totals.prCount + 1]
                  IN  foldUsersSimple(Tail(prs),
                          [userMap EXCEPT ![i] = [owner |-> existing.owner,
                                                  totals |-> summed,
                                                  averages |-> computeAveragesFromTotals(summed),
                                                  prs |-> Append(existing.prs, prInfo)]])

\* (a, b) => b.totals.prCount - a.totals.prCount
compareUsersSimple(a, b) == b.totals.prCount - a.totals.prCount

\* Array.prototype.sort (stable) under compareUsersSimple.
sortUsersSimple(seq) ==
    LET position(i) ==
            1 + Cardinality({j \in DOMAIN seq :
                    \/ compareUsersSimple(seq[j], seq[i]) < 0
                    \/ compareUsersSimple(seq[j], seq[i]) = 0 /\ j < i})
    IN  [k \in DOMAIN seq |-> seq[CHOOSE i \in DOMAIN seq : position(i) = k]]

buildUserReportsSimple(prs) == sortUsersSimple(foldUsersSimple(prs, <<>>))

\* Mutant: the per-file table applies the ignore patterns only.
FileReportCountsIgnoreOnly(exts, patterns, filename) ==
    ~buildIgnoreMatcher(patterns, filename)

\* The two `continue` tests at the head of buildFileReport's inner loop.
FileReportCounts(exts, patterns, filename) ==
    /\ ~buildIgnoreMatcher(patterns, filename)
    /\ isAllowedExtension(exts, filename)

\* All changed files of all PRs, in the order the nested loops visit them.
RECURSIVE AllFiles(_)
AllFiles(prs) == IF prs = <<>> THEN <<>> ELSE Head(prs).files \o AllFiles(Tail(prs))

\* Mutant: a tie on total changes is broken by descending path.
compareFilesPathDescending(a, b) ==
    IF b.totalChanges # a.totalChanges THEN b.totalChanges - a.totalChanges
    ELSE localeCompare(b.path, a.path)

compareFiles(a, b) ==
    IF b.totalChanges # a.totalChanges THEN b.totalChanges - a.totalChanges
    ELSE localeCompare(a.path, b.path)

\* The loops of buildFileReport: fileMap is the Map's values in insertion
\* order.
RECURSIVE foldFiles(_, _, _, _)
foldFiles(exts, patterns, files, fileMap) ==
    IF files = <<>> THEN fileMap
    ELSE LET file == Head(files)
             row == PRFileChangeInfo(file)
             found == {i \in DOMAIN fileMap : fileMap[i].path = file.filename}
         IN  IF ~FileReportCounts(exts, patterns, file.filename)
             THEN foldFiles(exts, patterns, Tail(files), fileMap)
             ELSE IF found = {}
             THEN foldFiles(exts, patterns, Tail(files),
                      Append(fileMap, [path |-> row.path,
                                       linesAdded |-> row.linesAdded,
                                       linesDeleted |-> row.linesDeleted,
                                       totalChanges |-> row.totalChanges,
                                       prCount |-> 1]))
             ELSE LET i == CHOOSE i \in found : TRUE
                      existing == fileMap[i]
                  IN  foldFiles(exts, patterns, Tail(files),
                          [fileMap EXCEPT ![i] =
                              [path |-> existing.path,
                               linesAdded |-> existing.linesAdded + row.linesAdded,
                               linesDeleted |-> existing.linesDeleted + row.linesDeleted,
                               totalChanges |-> existing.totalChanges + row.totalChanges,
                               prCount |-> existing.prCount + 1]])

\* Array.prototype.sort (stable) under compareFiles.
sortFiles(seq) ==
    LET position(i) ==
            1 + Cardinality({j \in DOMAIN seq :
                    \/ compareFiles(seq[j], seq[i]) < 0
                    \/ compareFiles(seq[j], seq[i]) = 0 /\ j < i})
    IN  [k \in DOMAIN seq |-> seq[CHOOSE i \in DOMAIN seq : position(i) = k]]

\* Mutant: the outer loop takes the files of the first PR only.
buildFileReportFirstPullOnly(exts, patterns, prs) ==
    sortFiles(foldFiles(exts, patterns, AllFiles(IF prs = <<>> THEN prs ELSE <<Head(prs)>>), <<>>))

buildFileReport(exts, patterns, prs) ==
    sortFiles(foldFiles(exts, patterns, AllFiles(prs), <<>>))

RECURSIVE computeTotals(_)
computeTotals(users) ==
    IF users = <<>>
    THEN [linesAdded |-> 0, linesDeleted |-> 0, filesChanged |-> 0, commitsCount |-> 0, prCount |-> 0]
    ELSE LET accumulator == computeTotals(SubSeq(users, 1, Len(users) - 1))
             user == users[Len(users)]
         IN  [linesAdded |-> accumulator.linesAdded + user.totals.linesAdded,
              linesDeleted |-> accumulator.linesDeleted + user.totals.linesDeleted,
              filesChanged |-> accumulator.filesChanged + user.totals.filesChanged,
              commitsCount |-> accumulator.commitsCount + user.totals.commitsCount,
              prCount |-> accumulator.prCount + user.totals.prCount]

\* Mutant: the sums are divided by the number of owners.
computeAveragesPerOwner(totals, userCount) ==
    [linesAdded |-> safeDivide(totals.linesAdded, userCount),
     linesDeleted |-> safeDivide(totals.linesDeleted, userCount),
     filesChanged |-> safeDivide(totals.filesChanged, userCount),
     commitsCount |-> safeDivide(totals.commitsCount, userCount),
     prCount |-> safeDivide(totals.prCount, userCount)]

computeAverages(totals, userCount) ==
    [linesAdded |-> safeDivide(totals.linesAdded, totals.prCount),
     linesDeleted |-> safeDivide(totals.linesDeleted, totals.prCount),
     filesChanged |-> safeDivide(totals.filesChanged, totals.prCount),
     commitsCount |-> safeDivide(totals.commitsCount, totals.prCount),
     prCount |-> safeDivide(totals.prCount, userCount)]

buildTable(users) ==
    [i \in DOMAIN users |->
        [owner |-> users[i].owner,
         prCount |-> users[i].totals.prCount,
         linesAdded |-> users[i].totals.linesAdded,
         linesDeleted |-> users[i].totals.linesDeleted,
         filesChanged |-> users[i].totals.filesChanged,
         commitsCount |-> users[i].totals.commitsCount,
         avgLinesAdded |-> users[i].averages.linesAdded,
         avgLinesDeleted |-> users[i].averages.linesDeleted,
         avgFilesChanged |-> users[i].averages.filesChanged,
         avgCommitsCount |-> users[i].averages.commitsCount]]

(***************************************************************************)
(* report.ts: inputs.                                                      *)
(***************************************************************************)
FileNames ==
    { <<"a", ".", "t", "s">>,          \* a.ts
      <<"A", ".", "T", "S">>,          \* A.TS
      <<"b", ".", "m", "d">>,          \* b.md
      <<"d", "/", ".", "t", "s">> }    \* d/.ts (a dot-file: no extension)

ExtStrings == { <<".", "t", "s">>, <<".", "T", "S">>, <<".", "m", "d">> }

PatStrings == { <<" ">>, <<"*", ".", "m", "d">>, <<"d", "/", "*">> }

FileEntry(filename, additions, deletions, changes) ==
    [filename |-> filename, additions |-> additions, deletions |-> deletions, changes |-> changes]

\* Changed-file entries as the files endpoint lists them; `changes` is given
\* on some and left out on others.
FileEntries ==
    { FileEntry(<<"a", ".", "t", "s">>, 10, 2, NoNumber),
      FileEntry(<<"a", ".", "t", "s">>, 3, 1, NoNumber),
      FileEntry(<<"b", ".", "m", "d">>, 1, 0, NoNumber),
      FileEntry(<<"A", ".", "T", "S">>, 2, 1, SomeNumber(4)),
      FileEntry(<<"d", "/", ".", "t", "s">>, 1, 1, SomeNumber(2)) }

\* The changed-file lists a PR may carry in the aggregation model: one
\* path appears at most once in a PR, and a PR changes at least one file.
FileLists ==
    { <<FileEntry(<<"a", ".", "t", "s">>, 10, 2, NoNumber),
        FileEntry(<<"b", ".", "m", "d">>, 1, 0, NoNumber)>>,
      <<FileEntry(<<"a", ".", "t", "s">>, 3, 1, NoNumber)>>,
      <<FileEntry(<<"b", ".", "m", "d">>, 1, 0, NoNumber)>>,
      <<FileEntry(<<"A", ".", "T", "S">>, 2, 1, SomeNumber(4))>>,
      <<FileEntry(<<"d", "/", ".", "t", "s">>, 1, 1, SomeNumber(2)),
        FileEntry(<<"a", ".", "t", "s">>, 10, 2, NoNumber)>> }

Owners == { <<"a", "l">>, <<"b", "o">> }

\* The PR detail as the API reports it: additions, deletions and
\* changed_files cover every changed file.
PullData(files) ==
    [additions |-> sumFiles(files, "additions"),
     deletions |-> sumFiles(files, "deletions"),
     changed_files |-> Len(files),
     commits |-> Len(files) + 1]

PullChoices == {[owner |-> o, files |-> fl] : o \in Owners, fl \in FileLists}

\* PR number i of the aggregation models was merged at tick i.
FetchedPull(number, choice) ==
    [summary |-> [number |-> number, owner |-> choice.owner,
                  mergedAt |-> [type |-> "Date", t |-> number]],
     data |-> PullData(choice.files),
     files |-> choice.files]

\* Extension and ignore-pattern configurations of the aggregation model.
ReportConfigs ==
    { [extensions |-> <<>>, ignoredFilePatterns |-> <<>>],
      [extensions |-> << <<".", "t", "s">> >>, ignoredFilePatterns |-> <<>>],
      [extensions |-> <<>>, ignoredFilePatterns |-> << <<" ">>, <<"*", ".", "m", "d">> >>],
      [extensions |-> << <<".", "T", "S">> >>, ignoredFilePatterns |-> << <<"d", "/", "*">> >>] }

NoReport ==
    [users |-> <<>>, totals |-> computeTotals(<<>>),
     averages |-> computeAverages(computeTotals(<<>>), 0), table |-> <<>>, files |-> <<>>,
     periodStart |-> 0, periodEnd |-> 0]

RepIdle ==
    /\ extensions = <<>> /\ ignoredFilePatterns = <<>> /\ changedFiles = <<>>
    /\ prFiles = <<>> /\ pulls = <<>> /\ rpc = "idle" /\ reportInfo = NoReport
    /\ generatedAt = 0 /\ generated = <<>>

FilterInit ==
    /\ extensions \in SeqsUpTo(ExtStrings, MaxExts)
    /\ ignoredFilePatterns \in SeqsUpTo(PatStrings, MaxPatterns)
    /\ changedFiles \in SeqsUpTo(FileEntries, MaxFiles)
    /\ prFiles = <<>>
    /\ pulls = <<>>
    /\ rpc = "input"
    /\ reportInfo = NoReport
    /\ generatedAt = 0
    /\ generated = <<>>

\* One call of buildPrFiles on the files of one PR.
FilterFiles ==
    /\ rpc = "input"
    /\ prFiles' = buildPrFiles(extensions, ignoredFilePatterns, changedFiles)
    /\ rpc' = "done"
    /\ UNCHANGED <<extensions, ignoredFilePatterns, changedFiles, pulls, reportInfo, generatedAt,
                   generated>>

ReportInit ==
    /\ \E config \in ReportConfigs :
        /\ extensions = config.extensions
        /\ ignoredFilePatterns = config.ignoredFilePatterns
    /\ \E choices \in SeqsUpTo(PullChoices, MaxReportPRs) :
        pulls = [i \in DOMAIN choices |-> FetchedPull(i, choices[i])]
    /\ changedFiles = <<>>
    /\ prFiles = <<>>
    /\ rpc = "input"
    /\ reportInfo = NoReport
    /\ generatedAt = 0
    /\ generated = <<>>

\* Inputs of the ordering model: three owners, one of them with a capital in
\* the login, and PRs of one file each, so that owners tie on their total
\* changes with different PR counts.
OrderOwners == { <<"a", "l">>, <<"B", "o">>, <<"d", "o">> }

OrderFileLists ==
    { <<FileEntry(<<"a", ".", "t", "s">>, 3, 1, NoNumber)>>,
      <<FileEntry(<<"b", ".", "m", "d">>, 1, 0, NoNumber)>> }

OrderChoices == {[owner |-> o, files |-> fl] : o \in OrderOwners, fl \in OrderFileLists}

OrderConfigs ==
    { [extensions |-> <<>>, ignoredFilePatterns |-> <<>>],
      [extensions |-> << <<".", "t", "s">> >>, ignoredFilePatterns |-> <<>>] }

OrderInit ==
    /\ \E config \in OrderConfigs :
        /\ extensions = config.extensions
        /\ ignoredFilePatterns = config.ignoredFilePatterns
    /\ \E choices \in SeqsUpTo(OrderChoices, MaxOrderPRs) :
        pulls = [i \in DOMAIN choices |-> FetchedPull(i, choices[i])]
    /\ changedFiles = <<>>
    /\ prFiles = <<>>
    /\ rpc = "input"
    /\ reportInfo = NoReport
    /\ generatedAt = 0
    /\ generated = <<>>

\* Inputs of the period model: since and until given or not (0), and PRs
\* merged inside the window they give.  A summary served from the range
\* cache carries its mergedAt as a string; the range cache is used only when
\* since and until are both given.
PeriodTimes == 1..MaxPeriodTime

PeriodPull(number, mergedAt) ==
    [FetchedPull(number, [owner |-> <<"a", "l">>, files |-> <<>>])
        EXCEPT !.summary.mergedAt = mergedAt]

PeriodInit ==
    /\ since \in 0..MaxPeriodTime
    /\ until \in 0..MaxPeriodTime
    /\ \E times \in SeqsUpTo(PeriodTimes, MaxReportPRs), type \in {"Date", "string"} :
        /\ \A i \in DOMAIN times :
            /\ since # 0 => times[i] >= since
            /\ until # 0 => times[i] <= until
        /\ type = "string" => since # 0 /\ until # 0 /\ times # <<>>
        /\ pulls = [i \in DOMAIN times |-> PeriodPull(i, [type |-> type, t |-> times[i]])]
    /\ extensions = <<>>
    /\ ignoredFilePatterns = <<>>
    /\ changedFiles = <<>>
    /\ prFiles = <<>>
    /\ rpc = "input"
    /\ reportInfo = NoReport
    /\ generatedAt = 0
    /\ generated = <<>>

\* What `new Date()` may give when the report is generated: later than
\* every merge.
GenerationTimes == {MaxPeriodTime + MaxOrderPRs + 1, MaxPeriodTime + MaxOrderPRs + 2}

\* date.getTime(): a number for a Date, a TypeError for anything else.
getTime(date) == IF date.type = "Date" THEN [ok |-> TRUE, v |-> date.t] ELSE [ok |-> FALSE, v |-> 0]

MergedTimes(mergedDates) == {getTime(mergedDates[i]).v : i \in DOMAIN mergedDates}

Throws(mergedDates) == \E i \in DOMAIN mergedDates : ~getTime(mergedDates[i]).ok

\* Mutant: the first PR's merge time is taken for the earliest.
determinePeriodStartFirst(s, mergedDates) ==
    IF s # 0 THEN [ok |-> TRUE, v |-> s]
    ELSE IF Len(mergedDates) > 0
         THEN [ok |-> ~Throws(mergedDates), v |-> getTime(mergedDates[1]).v]
    ELSE [ok |-> TRUE, v |-> 0]

determinePeriodStart(s, mergedDates) ==
    IF s # 0 THEN [ok |-> TRUE, v |-> s]
    ELSE IF Len(mergedDates) > 0
         THEN [ok |-> ~Throws(mergedDates), v |-> SetMin(MergedTimes(mergedDates))]
    ELSE [ok |-> TRUE, v |-> 0]

determinePeriodEnd(u, mergedDates, clock) ==
    IF u # 0 THEN [ok |-> TRUE, v |-> u]
    ELSE IF Len(mergedDates) > 0
         THEN [ok |-> ~Throws(mergedDates),
               v |-> CHOOSE t \in MergedTimes(mergedDates) :
                        \A other \in MergedTimes(mergedDates) : other <= t]
    ELSE [ok |-> TRUE, v |-> clock]

\* generateReport from the point where fetchMergedPullRequests has resolved.
\* The clock is read only where determinePeriodEnd falls back on it.
GenerateReport ==
    /\ rpc = "input"
    /\ \E clock \in IF until = 0 /\ pulls = <<>> THEN GenerationTimes ELSE {0} :
        LET mergedDates == [i \in DOMAIN pulls |-> pulls[i].summary.mergedAt]
            periodStart == determinePeriodStart(since, mergedDates)
            periodEnd == determinePeriodEnd(until, mergedDates, clock)
            users == buildUserReports(extensions, ignoredFilePatterns, pulls)
            totals == computeTotals(users)
        IN  IF ~periodStart.ok \/ ~periodEnd.ok
               THEN rpc' = "threw" /\ UNCHANGED <<reportInfo, generatedAt>>
            ELSE /\ reportInfo' =
                        [periodStart |-> periodStart.v,
                         periodEnd |-> periodEnd.v,
                         users |-> users,
                         totals |-> totals,
                         averages |-> computeAverages(totals, Len(users)),
                         table |-> buildTable(users),
                         files |-> buildFileReport(extensions, ignoredFilePatterns, pulls)]
                 /\ generatedAt' = clock
                 /\ rpc' = "done"
    /\ UNCHANGED <<extensions, ignoredFilePatterns, changedFiles, prFiles, pulls, generated>>

\* generateReport of the simple variant, from the point where
\* fetchMergedPullRequests has resolved: the report has no per-file table.
GenerateSimpleReport ==
    /\ rpc = "input"
    /\ \E clock \in IF until = 0 /\ pulls = <<>> THEN GenerationTimes ELSE {0} :
        LET mergedDates == [i \in DOMAIN pulls |-> pulls[i].summary.mergedAt]
            periodStart == determinePeriodStart(since, mergedDates)
            periodEnd == determinePeriodEnd(until, mergedDates, clock)
            users == buildUserReportsSimple(pulls)
            totals == computeTotals(users)
        IN  IF ~periodStart.ok \/ ~periodEnd.ok
               THEN rpc' = "threw" /\ UNCHANGED <<reportInfo, generatedAt>>
            ELSE /\ reportInfo' =
                        [periodStart |-> periodStart.v,
                         periodEnd |-> periodEnd.v,
                         totals |-> totals,
                         averages |-> computeAverages(totals, Len(users)),
                         users |-> users,
                         table |-> buildTable(users)]
                 /\ generatedAt' = clock
                 /\ rpc' = "done"
    /\ UNCHANGED <<extensions, ignoredFilePatterns, changedFiles, prFiles, pulls, generated>>

\* Inputs of the repeated-generation model: lists of up to two PRs.
AgainChoices ==
    { [owner |-> <<"a", "l">>, files |-> <<FileEntry(<<"a", ".", "t", "s">>, 3, 1, NoNumber)>>],
      [owner |-> <<"b", "o">>, files |-> <<FileEntry(<<"b", ".", "m", "d">>, 1, 0, NoNumber)>>] }

AgainInputs ==
    { [extensions |-> config.extensions,
       ignoredFilePatterns |-> config.ignoredFilePatterns,
       pulls |-> [i \in DOMAIN choices |-> FetchedPull(i, choices[i])]] :
         config \in OrderConfigs, choices \in SeqsUpTo(AgainChoices, 2) }

AgainInit ==
    /\ \E input \in AgainInputs :
        /\ extensions = input.extensions
        /\ ignoredFilePatterns = input.ignoredFilePatterns
        /\ pulls = input.pulls
    /\ changedFiles = <<>>
    /\ prFiles = <<>>
    /\ rpc = "input"
    /\ reportInfo = NoReport
    /\ generatedAt = 0
    /\ generated = <<>>

\* generateReport is called again in the same process, on a fetched list and
\* options that may or may not be those of an earlier call.
GenerateAgain ==
    /\ rpc = "done"
    /\ Len(generated) + 1 < MaxGenerations
    /\ generated' = Append(generated, [extensions |-> extensions,
                                       ignoredFilePatterns |-> ignoredFilePatterns,
                                       pulls |-> pulls,
                                       report |-> reportInfo])
    /\ \E input \in AgainInputs :
        /\ extensions' = input.extensions
        /\ ignoredFilePatterns' = input.ignoredFilePatterns
        /\ pulls' = input.pulls
    /\ rpc' = "input"
    /\ generatedAt' = 0
    /\ UNCHANGED <<changedFiles, prFiles, reportInfo>>

\* Inputs of the conservation model: the fetched list as either variant of
\* fetchMergedPullRequests resolves it, one record per listed summary; a PR
\* the listing delivered twice has two records, both carrying that PR.
ConserveInit ==
    /\ \E config \in OrderConfigs :
        /\ extensions = config.extensions
        /\ ignoredFilePatterns = config.ignoredFilePatterns
    /\ \E numbers \in SeqsUpTo(1..MaxReportPRs, MaxReportPRs) :
        \E choiceOf \in [1..MaxReportPRs -> AgainChoices] :
            pulls = [i \in DOMAIN numbers |-> FetchedPull(numbers[i], choiceOf[numbers[i]])]
    /\ changedFiles = <<>>
    /\ prFiles = <<>>
    /\ rpc = "input"
    /\ reportInfo = NoReport
    /\ generatedAt = 0
    /\ generated = <<>>

(***************************************************************************)
(* Specifications.                                                         *)
(***************************************************************************)
OrchQuiet ==
    /\ concurrentRequests = Undefined
    /\ cap = DefaultConcurrency /\ pc = "idle" /\ summaries = <<>>
    /\ tasks = <<>> /\ cache = <<>> /\ rejectedWith = <<0, "none">> /\ report = "pending"
    /\ run = 0 /\ previous = <<>> /\ completed = <<>>

OrchIdle == OrchQuiet /\ variant = "files"

Init == OrchInit /\ ListIdle /\ RepIdle

Next ==
    \/ ListingDone /\ UNCHANGED <<listVars, repVars>>
    \/ ListingFail /\ UNCHANGED <<listVars, repVars>>
    \/ \E i \in DOMAIN tasks, k \in Kinds : ReadDone(i, k) /\ UNCHANGED <<listVars, repVars>>
    \/ \E i \in DOMAIN tasks, k \in Kinds : NetDone(i, k) /\ UNCHANGED <<listVars, repVars>>
    \/ \E i \in DOMAIN tasks, k \in Kinds : WriteDone(i, k) /\ UNCHANGED <<listVars, repVars>>

Spec == Init /\ [][Next]_vars

NextRuns ==
    \/ ListingDone /\ UNCHANGED <<listVars, repVars>>
    \/ ListingFail /\ UNCHANGED <<listVars, repVars>>
    \/ \E i \in DOMAIN tasks, k \in Kinds : ReadDone(i, k) /\ UNCHANGED <<listVars, repVars>>
    \/ \E i \in DOMAIN tasks, k \in Kinds : NetDone(i, k) /\ UNCHANGED <<listVars, repVars>>
    \/ \E i \in DOMAIN tasks, k \in Kinds : WriteDone(i, k) /\ UNCHANGED <<listVars, repVars>>
    \/ RunAgain /\ UNCHANGED <<listVars, repVars>>

SpecRuns == Init /\ [][NextRuns]_vars

\* Every file read, request and file write that was started completes, and
\* the event loop runs the continuation of each completed operation.
SpecLive == Init /\ [][Next]_vars /\ WF_vars(Next)

InitSanitize == SanitizeInit /\ ListIdle /\ RepIdle

NextSanitize == SanitizeConcurrency /\ UNCHANGED <<listVars, repVars>>

SpecSanitize == InitSanitize /\ [][NextSanitize]_vars

\* fetchMergedPullRequests as a whole: the listing call, then the tasks over
\* the summaries it returned, against a remote source whose pulls may be
\* updated while the listing is paged.
NumbersOf(ss) == [i \in DOMAIN ss |-> ss[i].number]

\* The cache directory an earlier run left after fetching the PRs in `done`.
CacheAfter(v, done) ==
    [p \in CachePaths(v) |-> IF p[2] \in done THEN Payload(KindOfPath(p), p[2], 0)
                             ELSE Absent]

\* The file-aware program, on one-pull pages, with no window or the closed
\* window of the first tick.
InitFetch ==
    /\ OrchInit
    /\ variant = "files"
    /\ \E done \in SUBSET PRNumbers : cache = CacheAfter(variant, done)
    /\ ListInit
    /\ perPage = 1
    /\ since \in {0, 1} /\ until = since
    /\ \A n \in DOMAIN remotePulls : remotePulls[n] <= 1
    /\ RepIdle

NextFetch ==
    \/ ListBegin /\ pc = "listing" /\ lpc = "idle" /\ UNCHANGED <<orchVars, repVars>>
    \/ ListCacheRead /\ UNCHANGED <<orchVars, repVars>>
    \/ ListPage /\ UNCHANGED <<orchVars, repVars>>
    \/ ListPageFail /\ UNCHANGED <<orchVars, repVars>>
    \/ ListCacheWrite /\ UNCHANGED <<orchVars, repVars>>
    \/ RemoteUpdate /\ UNCHANGED <<orchVars, repVars>>
    \/ ListingDone /\ lpc = "returned" /\ summaries' = NumbersOf(result)
                   /\ UNCHANGED <<listVars, repVars>>
    \/ ListingFail /\ lpc = "rejected" /\ UNCHANGED <<listVars, repVars>>
    \/ \E i \in DOMAIN tasks, k \in Kinds : ReadDone(i, k) /\ UNCHANGED <<listVars, repVars>>
    \/ \E i \in DOMAIN tasks, k \in Kinds : NetDone(i, k) /\ UNCHANGED <<listVars, repVars>>
    \/ \E i \in DOMAIN tasks, k \in Kinds : WriteDone(i, k) /\ UNCHANGED <<listVars, repVars>>

SpecFetch == InitFetch /\ [][NextFetch]_vars

InitList == ListInit /\ OrchIdle /\ RepIdle

NextList ==
    \/ ListBegin /\ UNCHANGED <<orchVars, repVars>>
    \/ ListCacheRead /\ UNCHANGED <<orchVars, repVars>>
    \/ ListPage /\ UNCHANGED <<orchVars, repVars>>
    \/ ListPageFail /\ UNCHANGED <<orchVars, repVars>>
    \/ ListCacheWrite /\ UNCHANGED <<orchVars, repVars>>

SpecList == InitList /\ [][NextList]_vars

InitFilter == FilterInit /\ OrchIdle /\ ListIdle

NextFilter == FilterFiles /\ UNCHANGED <<orchVars, listVars>>

SpecFilter == InitFilter /\ [][NextFilter]_vars

InitReport == ReportInit /\ OrchIdle /\ ListIdle

NextReport == GenerateReport /\ UNCHANGED <<orchVars, listVars>>

SpecReport == InitReport /\ [][NextReport]_vars

InitOrder == OrderInit /\ OrchIdle /\ ListIdle

NextOrder == GenerateReport /\ UNCHANGED <<orchVars, listVars>>

SpecOrder == InitOrder /\ [][NextOrder]_vars

InitPeriod == PeriodInit /\ OrchIdle /\ ListQuiet

NextPeriod == GenerateReport /\ UNCHANGED <<orchVars, listVars>>

SpecPeriod == InitPeriod /\ [][NextPeriod]_vars

InitAgain == AgainInit /\ OrchIdle /\ ListIdle

NextAgain ==
    \/ GenerateReport /\ UNCHANGED <<orchVars, listVars>>
    \/ GenerateAgain /\ UNCHANGED <<orchVars, listVars>>

SpecAgain == InitAgain /\ [][NextAgain]_vars

InitConserve == ConserveInit /\ OrchQuiet /\ variant \in {"simple", "files"} /\ ListIdle

NextConserve ==
    \/ variant = "files" /\ GenerateReport /\ UNCHANGED <<orchVars, listVars>>
    \/ variant = "simple" /\ GenerateSimpleReport /\ UNCHANGED <<orchVars, listVars>>

SpecConserve == InitConserve /\ [][NextConserve]_vars

(***************************************************************************)
(* Properties of the fetch orchestrator (Spec).                            *)
(***************************************************************************)
OpIds == {<<i, k>> : i \in DOMAIN tasks, k \in Ops(variant)}
OpOf(id) == tasks[id[1]][id[2]]
PathOf(id) == CachePath(variant, id[2], summaries[id[1]])
FailedOps == {id \in OpIds : OpFailed(OpOf(id))}
NetInFlight == Cardinality({id \in OpIds : OpOf(id).pc = "net"})

\* C3: every detail fetch and file-list fetch consults the cache first; an
\* entry that exists is returned as stored with no network call; an absent
\* entry leads to exactly one network fetch whose payload is in the cache by
\* the time the fetch returns.
C3_CacheFirst ==
    \A id \in OpIds :
        LET o == OpOf(id)
        IN  /\ o.net <= 1
            /\ (o.pc \in {"queued", "read"} => o.net = 0)
            /\ (o.saw.tag = "payload" =>
                    o.pc = "done" /\ o.res = o.saw /\ o.net = 0 /\ cache[PathOf(id)] = o.saw)
            /\ (o.saw.tag = "absent" => o.net = 1)
            /\ (o.saw.tag = "absent" /\ o.pc = "done" =>
                    /\ o.res = Payload(id[2], summaries[id[1]], 1)
                    /\ cache[PathOf(id)] = o.res)

C3_Witness ==
    /\ \E id \in OpIds : OpOf(id).saw.tag = "payload" /\ OpOf(id).pc = "done"
    /\ \E id \in OpIds : OpOf(id).saw.tag = "absent" /\ OpOf(id).pc = "done"

\* C4: the number of per-PR fetch tasks that have started and not yet
\* settled never exceeds the sanitized concurrency cap.
C4_TasksWithinCap == ActiveCount(tasks) <= cap

C4_Witness == ActiveCount(tasks) = cap /\ QueuedSet(tasks) # {}

\* C5: in the file-aware orchestrator the number of requests in flight
\* against the remote source (PR-detail plus file-list requests) never
\* exceeds the concurrency cap.
C5_RequestsWithinCap == variant = "files" => NetInFlight <= cap

\* C6: when the listing or any per-PR fetch fails, fetchMergedPullRequests
\* rejects with a failure that occurred, the failed fetch is neither retried
\* nor skipped, and generateReport returns no report.
C6_FailFast ==
    /\ (rejectedWith = <<0, "listing">> =>
            pc = "rejected" /\ report = "thrown" /\ tasks = <<>>)
    /\ (FailedOps # {} =>
            pc = "rejected" /\ report = "thrown" /\ rejectedWith \in FailedOps)
    /\ \A id \in OpIds :
            /\ OpOf(id).net <= 1
            /\ (OpFailed(OpOf(id)) => OpOf(id).res = Unread)
    /\ (report = "returned" =>
            /\ pc = "resolved"
            /\ \A id \in OpIds : OpOf(id).pc = "done" /\ OpOf(id).res.tag = "payload")

C6_Witness ==
    /\ pc = "rejected" /\ report = "thrown"
    /\ \E id \in OpIds : OpOf(id).pc = "netErr" /\ rejectedWith = id
    /\ \E id \in OpIds : OpOf(id).pc = "done"

\* C20: when the detail or file-list entry of a PR exists but cannot be read
\* or parsed, the fetch of that PR fails with the read error and report
\* generation is aborted; no network fetch is made in its place and the entry
\* is left as it is.
C20_CorruptEntryFatal ==
    \A id \in OpIds :
        OpOf(id).saw.tag = "corrupt" =>
            /\ OpOf(id).pc = "readErr"
            /\ OpOf(id).net = 0
            /\ OpOf(id).res = Unread
            /\ cache[PathOf(id)] = Corrupt
            /\ pc = "rejected"
            /\ report = "thrown"

C20_Witness ==
    /\ \E id \in OpIds : OpOf(id).saw.tag = "corrupt" /\ rejectedWith = id
    /\ \E id \in OpIds : OpOf(id).pc = "done" /\ OpOf(id).net = 1
    /\ \A i \in DOMAIN tasks : TaskResolved(tasks[i]) \/ TaskRejected(tasks[i])

\* C27: fetchMergedPullRequests resolves only when every task has fulfilled,
\* and with the record of the i-th listed summary at position i, holding the
\* payloads of that PR, in whatever order the fetches completed; generateReport
\* goes on to aggregate only then.
C27_ListingOrder ==
    /\ (report = "returned" => pc = "resolved")
    /\ (pc = "resolved" =>
            /\ \A i \in DOMAIN tasks : TaskResolved(tasks[i])
            /\ Len(completed) = Len(tasks)
            /\ Len(detailedPulls) = Len(summaries)
            /\ \A i \in DOMAIN summaries :
                    /\ detailedPulls[i].summary = summaries[i]
                    /\ \A k \in Ops(variant) :
                            detailedPulls[i][k] = cache[CachePath(variant, k, summaries[i])])

C27_Witness ==
    /\ pc = "resolved" /\ report = "returned"
    /\ completed = <<2, 1>>
    /\ summaries[1] # summaries[2]
    /\ \E id \in OpIds : OpOf(id).net = 1

EarlierEntry(path) == cache[path].tag = "payload" /\ cache[path].gen < run

\* C18: an entry that exists when a run starts is neither modified nor
\* removed by that run, whatever its options and whatever the remote source
\* returns, and every fetch of its PR is served from it without a network
\* call.
C18_EntriesKept ==
    /\ [](\A id \in OpIds :
            EarlierEntry(PathOf(id)) =>
                /\ OpOf(id).net = 0
                /\ OpOf(id).pc \in {"queued", "read", "done"}
                /\ (OpOf(id).pc = "done" => OpOf(id).res = cache[PathOf(id)]))
    /\ [][\A path \in CachePaths(variant) :
            EarlierEntry(path) => cache'[path] = cache[path]]_vars

C18_Witness ==
    /\ run = 2
    /\ RunOver
    /\ \E id \in OpIds :
            /\ OpOf(id).pc = "done" /\ OpOf(id).net = 0
            /\ OpOf(id).saw = Payload(id[2], summaries[id[1]], 1)
    /\ \E id \in OpIds :
            /\ OpOf(id).pc = "done" /\ OpOf(id).net = 0
            /\ OpOf(id).saw = Payload(id[2], summaries[id[1]], 0)
    /\ \E id \in OpIds : OpOf(id).pc = "done" /\ OpOf(id).net = 1

(***************************************************************************)
(* Properties of fetchMergedPullRequests as a whole (SpecFetch).           *)
(***************************************************************************)
WindowPath == computeRangeCacheFilePath(since, until)

\* C21: a failure to write the range entry is swallowed and the summaries
\* just listed are returned as they are; a failure to write a detail or
\* file-list entry makes its fetch fail although the network call succeeded,
\* and fetchMergedPullRequests rejects.
C21_WriteFailures ==
    /\ (rangeWrite /\ lpc # "writeCache" => lpc = "returned" /\ result = collected)
    /\ \A id \in OpIds :
            OpOf(id).pc = "writeErr" =>
                /\ OpOf(id).net = 1
                /\ OpOf(id).res = Unread
                /\ pc = "rejected"
                /\ report = "thrown"

C21_Witness ==
    /\ rangeWrite /\ lpc = "returned" /\ rangeCache[WindowPath] = RangeAbsent
    /\ result # <<>>
    /\ \E id \in OpIds : OpOf(id).pc = "writeErr" /\ rejectedWith = id

(***************************************************************************)
(* Properties of sanitizeConcurrency (SpecSanitize).                       *)
(***************************************************************************)
\* C22: for every concurrency input the sanitized cap is an integer in
\* 1..25: 6 for undefined, NaN and 0; otherwise the input cut to its integer
\* part and clamped: 1 below 2, 25 from 25 on, the integer part in between.
C22_SanitizedCap ==
    pc = "sanitized" =>
        LET x == concurrentRequests
        IN  /\ cap \in 1..MaxConcurrency
            /\ (x \in {Undefined, NaN, Number(0)} => cap = DefaultConcurrency)
            /\ (x = PosInfinity => cap = MaxConcurrency)
            /\ (x = NegInfinity => cap = 1)
            /\ (x.kind = "number" /\ x.halves # 0 =>
                    /\ (x.halves < 4 => cap = 1)
                    /\ (x.halves >= 2 * MaxConcurrency => cap = MaxConcurrency)
                    /\ (x.halves >= 4 /\ x.halves < 2 * MaxConcurrency =>
                            2 * cap <= x.halves /\ x.halves < 2 * cap + 2))

C22_Witness ==
    /\ pc = "sanitized"
    /\ concurrentRequests = Number(-1)
    /\ cap = 1

\* C25: within one orchestration no two operations that are under way write
\* the same cache path, whatever listing the remote source returned over its
\* pages.
C25_DisjointWrites ==
    \A a \in OpIds, b \in OpIds :
        a # b /\ OpOf(a).pc = "write" /\ OpOf(b).pc = "write" => PathOf(a) # PathOf(b)

(***************************************************************************)
(* Properties of listMergedPullRequestSummaries (SpecList).                *)
(***************************************************************************)
\* A listed PR qualifies: it has a merge timestamp inside the window, both
\* bounds inclusive.
Qualifies(i) ==
    /\ remotePulls[i] # 0
    /\ (since # 0 => since <= remotePulls[i])
    /\ (until # 0 => remotePulls[i] <= until)
Qualifying == {i \in 1..Len(remotePulls) : Qualifies(i)}
QualifyingInOrder == SelectSeq([i \in 1..Len(remotePulls) |-> i], Qualifies)
PagesUpTo(n) == (n + perPage - 1) \div perPage

\* C1: for a limit L > 0 the call returns exactly min(L, number of qualifying
\* PRs) summaries, the first qualifying PRs in listing order, and after the
\* L-th qualifying PR no further PR is examined and no further page requested.
C1_FirstQualifyingUpToLimit ==
    lpc = "returned" /\ limit > 0 =>
        LET n == Min2(limit, Len(QualifyingInOrder))
        IN  /\ NumbersOf(result) = SubSeq(QualifyingInOrder, 1, n)
            /\ (Len(QualifyingInOrder) >= limit =>
                    /\ examined <= QualifyingInOrder[limit]
                    /\ pageRequests <= PagesUpTo(QualifyingInOrder[limit]))

\* C1 on the calls that list from the remote source (no range-cache hit): the
\* count, the order and the short-circuit are exact.
C1_FreshListing ==
    lpc = "returned" /\ limit > 0 /\ ~rangeHit =>
        LET n == Min2(limit, Len(QualifyingInOrder))
        IN  /\ NumbersOf(result) = SubSeq(QualifyingInOrder, 1, n)
            /\ IF Len(QualifyingInOrder) >= limit
                  THEN /\ examined = QualifyingInOrder[limit]
                       /\ pageRequests = PagesUpTo(QualifyingInOrder[limit])
                  ELSE /\ examined = Len(remotePulls)
                       /\ pageRequests = Max2(1, PagesUpTo(Len(remotePulls)))

\* C2: every summary a fresh listing returns has a merge timestamp with
\* since <= mergedAt <= until for the bounds supplied, and without a limit
\* every listed PR merged inside the window is returned.
C2_MergeWindow ==
    lpc = "returned" /\ ~rangeHit =>
        /\ \A i \in DOMAIN result :
              LET s == result[i]
              IN  /\ s.number \in 1..Len(remotePulls)
                  /\ s.mergedAt.t = remotePulls[s.number]
                  /\ s.mergedAt.t # 0
                  /\ (since # 0 => since <= s.mergedAt.t)
                  /\ (until # 0 => s.mergedAt.t <= until)
        /\ (limit = 0 => {result[i].number : i \in DOMAIN result} = Qualifying)

C2_Witness ==
    /\ lpc = "returned" /\ ~rangeHit /\ limit = 0 /\ since # 0 /\ until # 0
    /\ \E i \in DOMAIN result : result[i].mergedAt.t = since
    /\ \E i \in DOMAIN result : result[i].mergedAt.t = until
    /\ \E i \in 1..Len(remotePulls) : remotePulls[i] # 0 /\ ~Qualifies(i)

\* C7: the range cache is read or written only when since and until are both
\* supplied and until is on or before the end of yesterday by the clock of
\* the call; such a call does read it, and writes it after a fresh listing.
DayOf(t) == t \div DayLen
ClosedWindow == since # 0 /\ until # 0 /\ DayOf(until) < DayOf(now)

C7_RangeCacheFreshness ==
    /\ (rangeRead \/ rangeWrite \/ rangeHit => ClosedWindow)
    /\ (lpc # "idle" /\ ClosedWindow => rangeRead)
    /\ (lpc = "returned" /\ ClosedWindow /\ ~rangeHit => rangeWrite)
    /\ \A p \in RangePaths :
          rangeCache[p].tag = "payload" => p = computeRangeCacheFilePath(since, until)

C7_Witness ==
    /\ lpc = "returned" /\ since # 0
    /\ DayOf(until) = DayOf(now) - 2
    /\ rangeRead /\ rangeWrite
    /\ rangeCache[computeRangeCacheFilePath(since, until)].tag = "payload"

\* C19: when the range entry of a cache-eligible window exists but cannot be
\* parsed, the listing does not abort on it: it goes on to request the
\* listing from the remote source and returns what that gives.
C19_CorruptRangeFallsThrough ==
    /\ rangeRead
    /\ rangeCache[computeRangeCacheFilePath(since, until)].tag = "corrupt"
    /\ lpc \notin {"idle", "readCache"}
    => /\ pageRequests >= 1
       /\ ~rangeHit
       /\ (lpc = "returned" => result = collected)

\* What a fresh listing of the unchanged remote source returns for the
\* window and limit of the current call.
FreshNumbers ==
    IF limit > 0 THEN SubSeq(QualifyingInOrder, 1, Min2(limit, Len(QualifyingInOrder)))
    ELSE QualifyingInOrder

\* C26: on a closed window and an unchanged remote source, a listing served
\* from the range cache holds the PRs, with their merge times, that a fresh
\* listing with the same since, until and limit would return, whatever calls
\* were made on the window before.
C26_CachedEqualsFresh ==
    lpc = "returned" /\ rangeHit =>
        /\ NumbersOf(result) = FreshNumbers
        /\ \A i \in DOMAIN result : result[i].mergedAt.t = remotePulls[result[i].number]

(***************************************************************************)
(* Properties of the ignore/extension filter (SpecFilter) and of the       *)
(* aggregator (SpecReport).                                                *)
(***************************************************************************)
RECURSIVE SumFn(_, _)
SumFn(fn, S) ==
    IF S = {} THEN 0
    ELSE LET x == CHOOSE x \in S : TRUE IN fn[x] + SumFn(fn, S \ {x})

NonBlank(pattern) == \E i \in DOMAIN pattern : pattern[i] # " "

PassesIgnoreGate(filename) ==
    \A i \in DOMAIN ignoredFilePatterns :
        NonBlank(ignoredFilePatterns[i]) => ~minimatch(filename, ignoredFilePatterns[i])

PassesExtensionGate(filename) ==
    \/ extensions = <<>>
    \/ \E i \in DOMAIN extensions :
         toLowerCase(extensions[i]) = toLowerCase(extname(filename))

Accepts(filename) == PassesIgnoreGate(filename) /\ PassesExtensionGate(filename)

CountedPaths == [i \in DOMAIN prFiles |-> prFiles[i].path]

\* The paths of changedFiles, in order, whose entry in `test` is TRUE.
PathsWhere(test) ==
    LET kept == SelectSeq(changedFiles, LAMBDA file : test[file.filename])
    IN  [i \in DOMAIN kept |-> kept[i].filename]

AcceptsTest == [filename \in FileNames |-> Accepts(filename)]
ExtensionGateTest == [filename \in FileNames |-> PassesExtensionGate(filename)]
IgnoreGateTest == [filename \in FileNames |-> PassesIgnoreGate(filename)]

\* C8: a changed file is counted iff it matches none of the configured
\* non-blank ignore globs and its lower-cased extension is in the lower-cased
\* allow-set; with no patterns configured only the extension gate decides,
\* and with an empty allow-set only the ignore gate decides.
C8_CountedIffBothGates ==
    rpc = "done" /\ pulls = <<>> =>
        /\ CountedPaths = PathsWhere(AcceptsTest)
        /\ (ignoredFilePatterns = <<>> => CountedPaths = PathsWhere(ExtensionGateTest))
        /\ (extensions = <<>> => CountedPaths = PathsWhere(IgnoreGateTest))

C8_Witness ==
    /\ rpc = "done"
    /\ Len(changedFiles) = 2
    /\ Len(prFiles) = 1
    /\ \E i \in DOMAIN ignoredFilePatterns : ~NonBlank(ignoredFilePatterns[i])
    /\ \E i \in DOMAIN changedFiles : ~PassesIgnoreGate(changedFiles[i].filename)
    /\ \E i \in DOMAIN extensions :
         /\ extensions[i] # toLowerCase(extensions[i])
         /\ toLowerCase(extensions[i]) = extname(prFiles[1].path)

\* The (PR number, path) entries counted on the per-owner side of the report.
UserEntries ==
    UNION { UNION { { <<reportInfo.users[u].prs[p].prNumber,
                        reportInfo.users[u].prs[p].files[f].path>> :
                      f \in DOMAIN reportInfo.users[u].prs[p].files } :
                    p \in DOMAIN reportInfo.users[u].prs } :
            u \in DOMAIN reportInfo.users }

\* The (PR number, path) entries the per-file loop lets through.
FileEntriesCounted ==
    UNION { { <<pulls[i].summary.number, pulls[i].files[j].filename>> :
              j \in { j \in DOMAIN pulls[i].files :
                        FileReportCounts(extensions, ignoredFilePatterns,
                                         pulls[i].files[j].filename) } } :
            i \in DOMAIN pulls }

RowsOf(path) == {r \in DOMAIN reportInfo.files : reportInfo.files[r].path = path}

\* C9: the (PR, file) entries counted in the per-owner totals are exactly
\* the entries counted in the per-file totals: the per-file loop lets the
\* same entries through, and every path has a per-file row exactly when some
\* PR counts it on the per-owner side, with a PR count equal to the number
\* of those PRs.
C9_FilterConsistency ==
    rpc = "done" =>
        /\ UserEntries = FileEntriesCounted
        /\ \A path \in FileNames :
            LET prsWith == {e \in UserEntries : e[2] = path}
            IN  IF prsWith = {} THEN RowsOf(path) = {}
                ELSE /\ Cardinality(RowsOf(path)) = 1
                     /\ \A r \in RowsOf(path) :
                          reportInfo.files[r].prCount = Cardinality(prsWith)

C9_Witness ==
    /\ rpc = "done"
    /\ \E r \in DOMAIN reportInfo.files : reportInfo.files[r].prCount >= 2
    /\ \E i \in DOMAIN pulls : \E j \in DOMAIN pulls[i].files :
         <<i, pulls[i].files[j].filename>> \notin UserEntries
    /\ extensions # <<>>

PullsOf(owner) == {i \in DOMAIN pulls : pulls[i].summary.owner = owner}

AcceptedFiles(i) == {j \in DOMAIN pulls[i].files : Accepts(pulls[i].files[j].filename)}

SumAccepted(owner, field) ==
    SumFn([i \in PullsOf(owner) |->
              SumFn([j \in AcceptedFiles(i) |-> pulls[i].files[j][field]], AcceptedFiles(i))],
          PullsOf(owner))

\* C10: for every owner, linesAdded and linesDeleted are the sums over the
\* files of that owner's PRs that pass the filter, filesChanged is the number
\* of those file entries, commitsCount is the sum of the PRs' commit counts
\* and prCount is the number of the owner's PRs, those with every file
\* filtered out included; an owner has a row exactly when they have a PR.
C10_OwnerTotals ==
    rpc = "done" =>
        \A owner \in Owners :
            LET rows == {u \in DOMAIN reportInfo.users : reportInfo.users[u].owner = owner}
            IN  IF PullsOf(owner) = {} THEN rows = {}
                ELSE /\ Cardinality(rows) = 1
                     /\ \A u \in rows :
                         LET totals == reportInfo.users[u].totals
                         IN  /\ totals.linesAdded = SumAccepted(owner, "additions")
                             /\ totals.linesDeleted = SumAccepted(owner, "deletions")
                             /\ totals.filesChanged =
                                  SumFn([i \in PullsOf(owner) |-> Cardinality(AcceptedFiles(i))],
                                        PullsOf(owner))
                             /\ totals.commitsCount =
                                  SumFn([i \in PullsOf(owner) |-> pulls[i].data.commits],
                                        PullsOf(owner))
                             /\ totals.prCount = Cardinality(PullsOf(owner))

C10_Witness ==
    /\ rpc = "done"
    /\ \E u \in DOMAIN reportInfo.users :
        LET user == reportInfo.users[u]
        IN  /\ user.totals.prCount >= 2
            /\ user.totals.linesAdded > 0
            /\ user.totals.linesAdded <
                 SumFn([i \in PullsOf(user.owner) |-> pulls[i].data.additions],
                       PullsOf(user.owner))
            /\ \E p \in DOMAIN user.prs :
                 /\ user.prs[p].files = <<>>
                 /\ pulls[user.prs[p].prNumber].files # <<>>

\* The (PR index, file index) entries of `path` that pass both gates.
EntriesOf(path) ==
    {e \in UNION {{<<i, j>> : j \in DOMAIN pulls[i].files} : i \in DOMAIN pulls} :
        /\ pulls[e[1]].files[e[2]].filename = path
        /\ Accepts(path)}

EntryField(e, field) == pulls[e[1]].files[e[2]][field]

EntryChanges(e) ==
    IF EntryField(e, "changes").has THEN EntryField(e, "changes").v
    ELSE EntryField(e, "additions") + EntryField(e, "deletions")

CodeUnitOrder ==
    <<" ", "*", ".", "/", "A", "B", "D", "L", "M", "O", "S", "T",
      "a", "b", "d", "l", "m", "o", "s", "t">>

CodeUnit(c) == CHOOSE i \in DOMAIN CodeUnitOrder : CodeUnitOrder[i] = c

\* a < b on strings.
StringLess(a, b) ==
    CompareSeq([i \in DOMAIN a |-> CodeUnit(a[i])], [i \in DOMAIN b |-> CodeUnit(b[i])]) < 0

UserChanges(user) == user.totals.linesAdded + user.totals.linesDeleted

\* Row r comes strictly before row s in the owner ordering, Before(a, b)
\* being the order of the logins: given as the set of the pairs in order.
UserPrecedes(r, s, before) ==
    \/ UserChanges(r) > UserChanges(s)
    \/ /\ UserChanges(r) = UserChanges(s)
       /\ r.totals.prCount > s.totals.prCount
    \/ /\ UserChanges(r) = UserChanges(s)
       /\ r.totals.prCount = s.totals.prCount
       /\ <<r.owner, s.owner>> \in before

AllOwners == Owners \cup OrderOwners

LoginsByCodeUnit == {p \in AllOwners \X AllOwners : StringLess(p[1], p[2])}

LoginsByCollation == {p \in AllOwners \X AllOwners : localeCompare(p[1], p[2]) < 0}

OwnersInOrder(users) == [u \in DOMAIN users |-> users[u].owner]

Swapped(seq, i, j) == [seq EXCEPT ![i] = seq[j], ![j] = seq[i]]

\* C12 as stated: every adjacent pair of owner rows is in the order: more
\* total changes (linesAdded + linesDeleted) first, then more PRs first,
\* then the smaller owner login first; the order does not depend on the
\* order the PRs were folded in.
C12_OwnerOrderByCodeUnit ==
    rpc = "done" =>
        /\ \A u \in 1..(Len(reportInfo.users) - 1) :
              UserPrecedes(reportInfo.users[u], reportInfo.users[u + 1], LoginsByCodeUnit)
        /\ \A i \in DOMAIN pulls : \A j \in (i + 1)..Len(pulls) :
              OwnersInOrder(buildUserReports(extensions, ignoredFilePatterns,
                                             Swapped(pulls, i, j)))
                = OwnersInOrder(reportInfo.users)

\* C12 (amended): every adjacent pair of owner rows is in the order: more
\* total changes first, then more PRs first, then the owner login that
\* comes first in the collation order of localeCompare; and exchanging any
\* two PRs of the fetched list leaves the order of the owners as it is
\* (every fetched list being checked, so does any reordering of the PRs).
C12_OwnerOrder ==
    rpc = "done" =>
        /\ \A u \in 1..(Len(reportInfo.users) - 1) :
              UserPrecedes(reportInfo.users[u], reportInfo.users[u + 1], LoginsByCollation)
        /\ \A i \in DOMAIN pulls : \A j \in (i + 1)..Len(pulls) :
              OwnersInOrder(buildUserReports(extensions, ignoredFilePatterns,
                                             Swapped(pulls, i, j)))
                = OwnersInOrder(reportInfo.users)

\* The spec's example in small: B and A tie on total changes, B has more
\* PRs, C has fewer changes; A's PR was folded in first.
C12_Witness ==
    /\ rpc = "done"
    /\ Len(reportInfo.users) = 3
    /\ UserChanges(reportInfo.users[1]) = UserChanges(reportInfo.users[2])
    /\ reportInfo.users[1].totals.prCount > reportInfo.users[2].totals.prCount
    /\ UserChanges(reportInfo.users[2]) > UserChanges(reportInfo.users[3])
    /\ <<reportInfo.users[2].owner, reportInfo.users[1].owner>> \in LoginsByCollation
    /\ pulls[1].summary.owner = reportInfo.users[2].owner

\* The login decides, between a lower-case and a capitalised login.
C12_WitnessLoginTie ==
    /\ rpc = "done"
    /\ \E u \in 1..(Len(reportInfo.users) - 1) :
        /\ UserChanges(reportInfo.users[u]) = UserChanges(reportInfo.users[u + 1])
        /\ reportInfo.users[u].totals.prCount = reportInfo.users[u + 1].totals.prCount
        /\ reportInfo.users[u].owner = <<"a", "l">>
        /\ reportInfo.users[u + 1].owner = <<"B", "o">>

(***************************************************************************)
(* Properties of the per-file ordering (SpecReport).                       *)
(***************************************************************************)
PathsInOrder(rows) == [r \in DOMAIN rows |-> rows[r].path]

\* C13 as stated: for every adjacent pair of per-file rows (r, s),
\* r.totalChanges > s.totalChanges, or they are equal and r.path < s.path;
\* the order does not depend on the order of the input PRs.
C13_FileOrderByCodeUnit ==
    rpc = "done" =>
        /\ \A r \in 1..(Len(reportInfo.files) - 1) :
            LET row == reportInfo.files[r]
                next == reportInfo.files[r + 1]
            IN  \/ row.totalChanges > next.totalChanges
                \/ /\ row.totalChanges = next.totalChanges
                   /\ StringLess(row.path, next.path)
        /\ \A i \in DOMAIN pulls : \A j \in (i + 1)..Len(pulls) :
              PathsInOrder(buildFileReport(extensions, ignoredFilePatterns,
                                           Swapped(pulls, i, j)))
                = PathsInOrder(reportInfo.files)

\* C13 (amended): for every adjacent pair of per-file rows (r, s),
\* r.totalChanges > s.totalChanges, or they are equal and r.path comes
\* before s.path in the collation order of localeCompare; exchanging any
\* two PRs of the fetched list leaves the order of the rows as it is.
C13_FileOrder ==
    rpc = "done" =>
        /\ \A r \in 1..(Len(reportInfo.files) - 1) :
            LET row == reportInfo.files[r]
                next == reportInfo.files[r + 1]
            IN  \/ row.totalChanges > next.totalChanges
                \/ /\ row.totalChanges = next.totalChanges
                   /\ localeCompare(row.path, next.path) < 0
        /\ \A i \in DOMAIN pulls : \A j \in (i + 1)..Len(pulls) :
              PathsInOrder(buildFileReport(extensions, ignoredFilePatterns,
                                           Swapped(pulls, i, j)))
                = PathsInOrder(reportInfo.files)

\* Two rows tie on total changes, and the later path in the table is the
\* smaller one by code unit; the rows were met in the other order.
C13_Witness ==
    /\ rpc = "done"
    /\ \E r \in 1..(Len(reportInfo.files) - 1) :
        /\ reportInfo.files[r].totalChanges = reportInfo.files[r + 1].totalChanges
        /\ StringLess(reportInfo.files[r + 1].path, reportInfo.files[r].path)
        /\ pulls[1].files[1].filename = reportInfo.files[r + 1].path
    /\ \E r \in 1..(Len(reportInfo.files) - 1) :
        reportInfo.files[r].totalChanges > reportInfo.files[r + 1].totalChanges

(***************************************************************************)
(* Properties of the averages and totals (SpecReport).                     *)
(***************************************************************************)
SumFields == {"linesAdded", "linesDeleted", "filesChanged", "commitsCount"}

\* The fraction q is the quotient n / d, for d > 0.
IsQuotient(q, n, d) == q[2] > 0 /\ q[1] * d = n * q[2]

ZeroAverage == <<0, 1>>

\* q is n / d when d is not 0, and 0 when it is.
IsSafeQuotient(q, n, d) == IF d = 0 THEN q = ZeroAverage ELSE IsQuotient(q, n, d)

\* C14: every per-owner average is the owner's final total divided by the
\* owner's final prCount (average * prCount = total), in the owner rows and
\* in the table; every report-level average and the PRs-per-owner average
\* is the quotient when its divisor is not 0 and is 0 when it is, so that
\* the report for no PRs has all averages 0.
C14_Averages ==
    rpc = "done" =>
        /\ \A u \in DOMAIN reportInfo.users :
            LET user == reportInfo.users[u]
            IN  \A field \in SumFields :
                    IsSafeQuotient(user.averages[field], user.totals[field], user.totals.prCount)
        /\ \A u \in DOMAIN reportInfo.table :
            LET row == reportInfo.table[u]
            IN  /\ IsSafeQuotient(row.avgLinesAdded, row.linesAdded, row.prCount)
                /\ IsSafeQuotient(row.avgLinesDeleted, row.linesDeleted, row.prCount)
                /\ IsSafeQuotient(row.avgFilesChanged, row.filesChanged, row.prCount)
                /\ IsSafeQuotient(row.avgCommitsCount, row.commitsCount, row.prCount)
        /\ \A field \in SumFields :
            IsSafeQuotient(reportInfo.averages[field], reportInfo.totals[field],
                           reportInfo.totals.prCount)
        /\ IsSafeQuotient(reportInfo.averages.prCount, reportInfo.totals.prCount,
                          Len(reportInfo.users))
        /\ (pulls = <<>> =>
                \A field \in SumFields \cup {"prCount"} :
                    reportInfo.averages[field] = ZeroAverage)

\* An owner with several PRs and an average that is not a whole number.
C14_Witness ==
    /\ rpc = "done"
    /\ \E u \in DOMAIN reportInfo.users :
        /\ reportInfo.users[u].totals.prCount >= 2
        /\ reportInfo.users[u].averages.linesAdded[2] > 1
        /\ \E q \in DOMAIN reportInfo.users[u].prs : reportInfo.users[u].prs[q].files = <<>>

\* The report for an empty PR set.
C14_WitnessEmpty ==
    /\ rpc = "done"
    /\ pulls = <<>>
    /\ reportInfo.totals.prCount = 0
    /\ reportInfo.averages.linesAdded = ZeroAverage

DistinctOwners == {pulls[i].summary.owner : i \in DOMAIN pulls}

\* C15: each report total (linesAdded, linesDeleted, filesChanged,
\* commitsCount, prCount) is the sum of that total over the owner rows; each
\* report average is the report total divided by the report's prCount, and
\* averages.prCount is the report's prCount divided by the number of
\* distinct owners of the fetched PRs.
C15_ReportTotals ==
    rpc = "done" =>
        /\ \A field \in SumFields \cup {"prCount"} :
            reportInfo.totals[field] =
                SumFn([u \in DOMAIN reportInfo.users |-> reportInfo.users[u].totals[field]],
                      DOMAIN reportInfo.users)
        /\ \A field \in SumFields :
            IsSafeQuotient(reportInfo.averages[field], reportInfo.totals[field],
                           reportInfo.totals.prCount)
        /\ IsSafeQuotient(reportInfo.averages.prCount, reportInfo.totals.prCount,
                          Cardinality(DistinctOwners))

C15_Witness ==
    /\ rpc = "done"
    /\ Cardinality(DistinctOwners) = 2
    /\ reportInfo.totals.prCount = 3
    /\ reportInfo.averages.prCount = <<3, 2>>
    /\ reportInfo.totals.linesAdded > 0
    /\ reportInfo.averages.linesAdded[2] > 1

(***************************************************************************)
(* Properties of the period bounds (SpecPeriod).                           *)
(***************************************************************************)
MergeTimeOf(i) == pulls[i].summary.mergedAt.t

\* C16: periodStart is since when since is given, else the earliest merge
\* time of the fetched PRs, else (no PR) the epoch; periodEnd is until when
\* until is given, else the latest merge time, else the time the report was
\* generated; with neither bound given and a PR fetched, every PR's merge
\* time lies between periodStart and periodEnd.  Generation never throws.
C16_PeriodBounds ==
    /\ rpc # "threw"
    /\ rpc = "done" =>
        /\ since # 0 => reportInfo.periodStart = since
        /\ since = 0 /\ pulls # <<>> =>
              /\ \E i \in DOMAIN pulls : reportInfo.periodStart = MergeTimeOf(i)
              /\ \A i \in DOMAIN pulls : reportInfo.periodStart <= MergeTimeOf(i)
        /\ since = 0 /\ pulls = <<>> => reportInfo.periodStart = 0
        /\ until # 0 => reportInfo.periodEnd = until
        /\ until = 0 /\ pulls # <<>> =>
              /\ \E i \in DOMAIN pulls : reportInfo.periodEnd = MergeTimeOf(i)
              /\ \A i \in DOMAIN pulls : reportInfo.periodEnd >= MergeTimeOf(i)
        /\ until = 0 /\ pulls = <<>> =>
              reportInfo.periodEnd = generatedAt /\ generatedAt \in GenerationTimes
        /\ since = 0 /\ until = 0 /\ pulls # <<>> =>
              \A i \in DOMAIN pulls :
                  reportInfo.periodStart <= MergeTimeOf(i) /\ MergeTimeOf(i) <= reportInfo.periodEnd

\* Neither bound given, three PRs, the first fetched neither the earliest
\* nor the latest merged.
C16_Witness ==
    /\ rpc = "done"
    /\ since = 0 /\ until = 0
    /\ Len(pulls) = 3
    /\ reportInfo.periodStart < MergeTimeOf(1)
    /\ MergeTimeOf(1) < reportInfo.periodEnd

\* Summaries served from the range cache: both bounds given, string dates.
C16_WitnessCached ==
    /\ rpc = "done"
    /\ pulls # <<>>
    /\ pulls[1].summary.mergedAt.type = "string"
    /\ reportInfo.periodStart = since /\ reportInfo.periodEnd = until

NoFailure == pc # "rejected" /\ FailedOps = {}

AllFetched ==
    /\ pc = "resolved"
    /\ Len(tasks) = Len(summaries)
    /\ \A id \in OpIds :
            /\ OpOf(id).pc = "done"
            /\ OpOf(id).res.tag = "payload"
            /\ OpOf(id).res.kind = id[2]
            /\ OpOf(id).res.number = summaries[id[1]]

\* C24: if the listing and every fetch succeed, a task waits behind the
\* limiter only while all slots are taken, every waiting task is started in
\* the end, and fetchMergedPullRequests resolves with one record per listed
\* summary.
C24_LimiterLiveness ==
    []NoFailure =>
        /\ [](QueuedSet(tasks) # {} => ActiveCount(tasks) = cap)
        /\ \A i \in 1..MaxPRs :
              (i \in DOMAIN tasks /\ ~Started(tasks[i])) ~> (i \in DOMAIN tasks /\ Started(tasks[i]))
        /\ <>AllFetched

C24_Witness ==
    /\ AllFetched
    /\ Len(tasks) > cap
    /\ \E id \in OpIds : OpOf(id).net = 1

(***************************************************************************)
(* Conservation of the fetched records (SpecConserve).                     *)
(***************************************************************************)
RowsOfOwner(owner) == {u \in DOMAIN reportInfo.users : reportInfo.users[u].owner = owner}

\* The PR numbers of the fetched records of one owner, in fetched order.
NumbersOfOwner(owner) ==
    LET mine == SelectSeq([i \in DOMAIN pulls |-> i], LAMBDA i : pulls[i].summary.owner = owner)
    IN  [k \in DOMAIN mine |-> pulls[mine[k]].summary.number]

\* C28: after aggregation there is one row per owner of a fetched record, the
\* prs list of that row holds exactly the records whose summary names that
\* owner (so every record is in one list, that of its owner), each owner's
\* prCount is the length of the owner's prs list, and the report's prCount is
\* the number of fetched records.
C28_PrConservation ==
    rpc = "done" =>
        /\ \A i \in DOMAIN pulls : Cardinality(RowsOfOwner(pulls[i].summary.owner)) = 1
        /\ \A u \in DOMAIN reportInfo.users :
             LET user == reportInfo.users[u]
             IN  /\ [p \in DOMAIN user.prs |-> user.prs[p].prNumber] = NumbersOfOwner(user.owner)
                 /\ \A p \in DOMAIN user.prs : user.prs[p].owner = user.owner
                 /\ user.totals.prCount = Len(user.prs)
                 /\ user.prs # <<>>
        /\ reportInfo.totals.prCount = Len(pulls)

C28_Witness ==
    /\ rpc = "done"
    /\ variant = "files"
    /\ Len(pulls) = 3
    /\ Len(reportInfo.users) = 2
    /\ extensions # <<>>
    /\ \E u \in DOMAIN reportInfo.users :
         /\ reportInfo.users[u].totals.prCount = 2
         /\ reportInfo.users[u].totals.filesChanged = 0

C28_WitnessSimple ==
    /\ rpc = "done"
    /\ variant = "simple"
    /\ Len(pulls) = 3
    /\ \E u \in DOMAIN reportInfo.users : Len(reportInfo.users[u].prs) = 2

(***************************************************************************)
(* Consistency of the per-file table with the report totals (SpecReport). *)
(***************************************************************************)
SumOverFileRows(field) ==
    SumFn([r \in DOMAIN reportInfo.files |-> reportInfo.files[r][field]], DOMAIN reportInfo.files)

\* C29: in the file-aware report the linesAdded of the per-file rows add up
\* to the report's totals.linesAdded, their linesDeleted to
\* totals.linesDeleted, and their prCount to totals.filesChanged, for every
\* PR list and filter configuration.
C29_CrossTable ==
    rpc = "done" =>
        /\ SumOverFileRows("linesAdded") = reportInfo.totals.linesAdded
        /\ SumOverFileRows("linesDeleted") = reportInfo.totals.linesDeleted
        /\ SumOverFileRows("prCount") = reportInfo.totals.filesChanged

C29_Witness ==
    /\ rpc = "done"
    /\ Len(reportInfo.users) = 2
    /\ Len(reportInfo.files) >= 2
    /\ \E r \in DOMAIN reportInfo.files : reportInfo.files[r].prCount >= 2
    /\ reportInfo.totals.filesChanged >= 3
    /\ reportInfo.totals.filesChanged < reportInfo.totals.prCount + 2
    /\ ignoredFilePatterns # <<>>
    /\ \E i \in DOMAIN pulls : \E j \in DOMAIN pulls[i].files :
         ~Accepts(pulls[i].files[j].filename)

(***************************************************************************)
(* The work that goes on after a rejection (SpecLive).                     *)
(***************************************************************************)
\* The ops of this run that fetched `path` from the remote source and
\* returned the payload.
FetchedBy(path) ==
    {id \in OpIds : PathOf(id) = path /\ OpOf(id).net = 1 /\ OpOf(id).pc = "done"}

WrittenThisRun(path) == cache[path].tag = "payload" /\ cache[path].gen = run

\* C30: a failure cancels nothing.  Whatever has been rejected, every task
\* waiting behind the limiter is started, every op that misses the cache
\* issues its request, and every op runs to its end; an entry is written only
\* for a fetch that succeeded, and when all ops have ended every successful
\* fetch has its entry in the cache, where a later run finds it.
C30_RejectionDoesNotCancel ==
    /\ \A i \in 1..MaxPRs :
          (i \in DOMAIN tasks /\ ~Started(tasks[i])) ~> (i \in DOMAIN tasks /\ Started(tasks[i]))
    /\ (pc = "rejected") ~> RunOver
    /\ [](\A id \in OpIds : OpOf(id).saw.tag = "absent" => OpOf(id).net = 1)
    /\ [](\A path \in DOMAIN cache :
            WrittenThisRun(path) =>
                \E id \in FetchedBy(path) : OpOf(id).res = cache[path])
    /\ [](RunOver =>
            \A path \in DOMAIN cache : \A id \in FetchedBy(path) :
                cache[path] = OpOf(id).res /\ readCache(cache[path]).status = "value")

C30_Witness ==
    /\ RunOver
    /\ pc = "rejected"
    /\ cap = 1
    /\ Len(tasks) = 2
    /\ rejectedWith[1] = 1
    /\ summaries[1] # summaries[2]
    /\ \A k \in Ops(variant) :
          /\ <<2, k>> \in FetchedBy(PathOf(<<2, k>>))
          /\ WrittenThisRun(PathOf(<<2, k>>))

====
